---- MODULE Spec2Model ----
(***************************************************************************)
(* A model of aegis (simplyzetax/aegis): the selective DNS resolver        *)
(* (internal/dns/server.go), the DNS service start-up with port fallback,  *)
(* and the system-DNS manager (internal/dns/manager.go).                   *)
(*                                                                         *)
(* Domain names are sequences of one-character strings, so that            *)
(* strings.ToLower, strings.HasSuffix and strings.HasPrefix are computed   *)
(* as the Go code computes them.  IP addresses are byte sequences as in    *)
(* net.IP.                                                                 *)
(***************************************************************************)
EXTENDS Integers, Sequences, FiniteSets, TLC

VARIABLES
    Redirects,          \* config.Config.DNS.Redirects
    service,            \* globalDNSService: "nil" or "created"
    redirects,          \* Server.redirects (exact map)
    redirectsWildcard,  \* Server.redirectsWildcard
    serving,            \* the resolver's listeners are serving
    exchange,           \* the request most recently handled and what was sent/written
    upd,                \* the position of a running updateRedirects call
    fatal,              \* the Go runtime has aborted the process
    sp,                 \* the position of a running StartService call and what it returned
    attempts,           \* the Server.Start calls made so far and what their probes found
    held,               \* the sockets this process has bound
    platform,           \* Manager.platform (runtime.GOOS)
    osDNS,              \* the host: the resolvers configured on each network interface
    active,             \* the host: whether networksetup reports the service active
    fallbackDNS,        \* the host: what /etc/resolv.conf or scutil yields
    originalDNS,        \* Manager.originalDNS
    AutoManageSystem,   \* config.Config.DNS.AutoManageSystem
    mgrOps,             \* the Manager operations called so far and how they went
    preDNS,             \* the host configuration before the first Manager operation
    Proxy,              \* config.Config.Proxy
    http,               \* the HTTP request most recently handled by the proxy and its outcome
    life                \* the position of the lifecycle (runSimpleMode, startProxyServer)

resolverVars == <<Redirects, service, redirects, redirectsWildcard, serving, exchange, upd, fatal>>

startVars == <<sp, attempts, held>>

mgrVars == <<platform, osDNS, active, fallbackDNS, originalDNS, AutoManageSystem, mgrOps, preDNS>>

proxyVars == <<Proxy, http>>

lifeVars == <<life>>

vars == <<resolverVars, startVars, mgrVars, proxyVars, lifeVars>>

(***************************************************************************)
(* Bounds of the model.                                                    *)
(***************************************************************************)
MaxRules == 2
MaxExtraQuestions == 1
MaxMgrOps == 3
MaxServers == 4

(***************************************************************************)
(* Strings.                                                                *)
(***************************************************************************)
ToLowerChar(c) ==
    CASE c = "E" -> "e"
      [] c = "C" -> "c"
      [] c = "X" -> "x"
      [] c = "O" -> "o"
      [] OTHER -> c

ToLower(s) == [i \in 1..Len(s) |-> ToLowerChar(s[i])]

HasSuffix(s, suffix) ==
    /\ Len(s) >= Len(suffix)
    /\ SubSeq(s, Len(s) - Len(suffix) + 1, Len(s)) = suffix

HasPrefix(s, prefix) ==
    /\ Len(s) >= Len(prefix)
    /\ SubSeq(s, 1, Len(prefix)) = prefix

Dot == <<".">>

(***************************************************************************)
(* net.IP: ParseIP yields the 16-byte form for IPv4 and IPv6 literals and  *)
(* nil (the empty sequence) for anything else.                             *)
(***************************************************************************)
V4InV6Prefix == <<0, 0, 0, 0, 0, 0, 0, 0, 0, 0, 255, 255>>

ParseIP(lit) ==
    CASE lit = "127.0.0.1" -> V4InV6Prefix \o <<127, 0, 0, 1>>
      [] lit = "10.0.0.5"  -> V4InV6Prefix \o <<10, 0, 0, 5>>
      [] lit = "fe80::1"   -> <<254, 128, 0, 0, 0, 0, 0, 0, 0, 0, 0, 0, 0, 0, 0, 1>>
      [] lit = "::1"       -> <<0, 0, 0, 0, 0, 0, 0, 0, 0, 0, 0, 0, 0, 0, 0, 1>>
      [] OTHER -> <<>>

\* net.IP.To4: the 4-byte form of an IPv4 or IPv4-in-IPv6 address, else nil
To4(ip) ==
    IF Len(ip) = 4 THEN ip
    ELSE IF Len(ip) = 16 /\ SubSeq(ip, 1, 12) = V4InV6Prefix THEN SubSeq(ip, 13, 16)
    ELSE <<>>

\* net.IP.To16
To16(ip) ==
    IF Len(ip) = 4 THEN V4InV6Prefix \o ip
    ELSE IF Len(ip) = 16 THEN ip
    ELSE <<>>

(***************************************************************************)
(* Configuration (internal/config).                                        *)
(***************************************************************************)
\* The redirects an operator may add: two spellings of one exact name with
\* different targets, a wildcard, and a second wildcard whose suffix covers
\* the first.
RulePool ==
    { [Domain |-> <<"E", ".", "c">>,           Target |-> "10.0.0.5"],
      [Domain |-> <<"e", ".", "c", ".">>,      Target |-> "127.0.0.1"],
      [Domain |-> <<"*", ".", "e", ".", "c">>, Target |-> "127.0.0.1"],
      [Domain |-> <<"*", ".", "C">>,           Target |-> "fe80::1"] }

DNSRedirect(r, enabled) ==
    [Domain |-> r.Domain, Target |-> r.Target, Enabled |-> enabled]

GetEnabledRedirects(rs) == SelectSeq(rs, LAMBDA r : r.Enabled)

RemoveAt(s, i) == SubSeq(s, 1, i - 1) \o SubSeq(s, i + 1, Len(s))

(***************************************************************************)
(* Server.updateRedirects.                                                 *)
(***************************************************************************)
EmptyMap == <<>>

MapSet(m, k, v) == [x \in (DOMAIN m) \cup {k} |-> IF x = k THEN v ELSE m[x]]

\* lines 43-46: the normalised domain pattern
NormalizeDomain(d) ==
    LET domain == ToLower(d)
    IN  IF HasSuffix(domain, Dot) THEN domain ELSE domain \o Dot

\* one iteration of the loop, lines 41-58
AddRedirectToMaps(maps, redirect) ==
    LET domain == NormalizeDomain(redirect.Domain)
    IN  IF HasPrefix(domain, <<"*", ".">>)
        THEN [maps EXCEPT !.wildcard = MapSet(@, SubSeq(domain, 3, Len(domain)), redirect.Target)]
        ELSE [maps EXCEPT !.exact = MapSet(@, domain, redirect.Target)]

RECURSIVE FillMaps(_, _, _)
FillMaps(maps, enabled, i) ==
    IF i > Len(enabled) THEN maps
    ELSE FillMaps(AddRedirectToMaps(maps, enabled[i]), enabled, i + 1)

\* the maps a complete updateRedirects call leaves, given the configuration
updateRedirects(rs) ==
    FillMaps([exact |-> EmptyMap, wildcard |-> EmptyMap], GetEnabledRedirects(rs), 1)

(***************************************************************************)
(* DNS messages.                                                           *)
(***************************************************************************)
Ttl == 300

RequestIds == {7, 8}

QNames ==
    { <<"E", ".", "C">>,             \* the exact name, upper case, no trailing dot
      <<"e", ".", "C", ".">>,        \* the exact name, mixed case, trailing dot
      <<"X", ".", "e", ".", "c">>,   \* a name under the wildcard suffix e.c
      <<"x", "e", ".", "c">>,        \* ends with the characters of e.c, no label boundary
      <<"e", ".", "c", ".", "o">> }  \* the suffix followed by another label

Qtypes == {"A", "AAAA", "CNAME", "MX"}

QuestionPool == {[Name |-> n, Qtype |-> t] : n \in QNames, t \in Qtypes}

\* the questions that may follow the first one of a request
ExtraQuestionPool ==
    { [Name |-> <<"X", ".", "e", ".", "c">>, Qtype |-> "A"],
      [Name |-> <<"X", ".", "e", ".", "c">>, Qtype |-> "MX"],
      [Name |-> <<"e", ".", "c", ".", "o">>, Qtype |-> "A"] }

RECURSIVE SeqsUpTo(_, _)
SeqsUpTo(S, n) ==
    IF n = 0 THEN {<<>>}
    ELSE LET shorter == SeqsUpTo(S, n - 1)
         IN  shorter \cup {Append(s, x) : s \in shorter, x \in S}

Questions ==
    {<<>>} \cup {<<q>> \o extra : q \in QuestionPool,
                                  extra \in SeqsUpTo(ExtraQuestionPool, MaxExtraQuestions)}

Requests ==
    {[Id |-> id, Response |-> FALSE, Authoritative |-> FALSE, RecursionAvailable |-> FALSE,
      Rcode |-> "NOERROR", Question |-> qs, Answer |-> <<>>] : id \in RequestIds, qs \in Questions}

\* dns.Msg.SetReply followed by the two flag assignments, lines 64-67
SetReply(r) ==
    [Id |-> r.Id, Response |-> TRUE, Authoritative |-> TRUE, RecursionAvailable |-> TRUE,
     Rcode |-> "NOERROR",
     Question |-> IF Len(r.Question) > 0 THEN <<r.Question[1]>> ELSE <<>>,
     Answer |-> <<>>]

RR(name, rrtype, data) ==
    [Name |-> name, Rrtype |-> rrtype, Class |-> "IN", Ttl |-> Ttl, Data |-> data]

\* what the upstream resolver may answer to a forwarded request
UpstreamReplies(r) ==
    { [Id |-> r.Id, Response |-> TRUE, Authoritative |-> FALSE, RecursionAvailable |-> TRUE,
       Rcode |-> "NOERROR", Question |-> r.Question,
       Answer |-> <<[Name |-> r.Question[1].Name, Rrtype |-> r.Question[1].Qtype,
                     Class |-> "IN", Ttl |-> 60, Data |-> <<93, 184, 216, 34>>]>>],
      [Id |-> r.Id, Response |-> TRUE, Authoritative |-> FALSE, RecursionAvailable |-> TRUE,
       Rcode |-> "NXDOMAIN", Question |-> r.Question, Answer |-> <<>>] }

(***************************************************************************)
(* Server.shouldRedirectQuery.  The wildcard map is scanned in Go's map    *)
(* iteration order, which is unspecified: every pattern that is a suffix   *)
(* of the name may be the one returned.                                    *)
(***************************************************************************)
\* lines 94-97 without the trailing dot being appended
NormalizeQueryNoDot(n) == ToLower(n)

NormalizeQuery(n) ==
    LET queryName == ToLower(n)
    IN  IF HasSuffix(queryName, Dot) THEN queryName ELSE queryName \o Dot

\* line 106 requiring a label boundary before the pattern
WildcardMatchBelowOnly(queryName, pattern) == HasSuffix(queryName, Dot \o pattern)

WildcardMatch(queryName, pattern) == HasSuffix(queryName, pattern)

\* the lookup scanning the wildcard map before the exact map
shouldRedirectWildcardFirst(maps, name) ==
    LET queryName == NormalizeQuery(name)
        matching == {p \in DOMAIN maps.wildcard : WildcardMatch(queryName, p)}
    IN  IF matching # {}
        THEN {[target |-> maps.wildcard[p], hit |-> TRUE] : p \in matching}
        ELSE IF queryName \in DOMAIN maps.exact
             THEN {[target |-> maps.exact[queryName], hit |-> TRUE]}
             ELSE {[target |-> "", hit |-> FALSE]}

shouldRedirectQuery(maps, name) ==
    LET queryName == NormalizeQuery(name)
    IN  IF queryName \in DOMAIN maps.exact
        THEN {[target |-> maps.exact[queryName], hit |-> TRUE]}
        ELSE LET matching == {p \in DOMAIN maps.wildcard : WildcardMatch(queryName, p)}
             IN  IF matching = {}
                 THEN {[target |-> "", hit |-> FALSE]}
                 ELSE {[target |-> maps.wildcard[p], hit |-> TRUE] : p \in matching}

(***************************************************************************)
(* Server.handleRedirectQuery.                                             *)
(***************************************************************************)
\* lines 134-151 without the special case of line 138
AAAAAddressAlwaysMapped(targetIP) ==
    LET ip == ParseIP(targetIP)
    IN  IF ip # <<>> THEN To16(ip) ELSE ParseIP("::1")

\* lines 134-151
AAAAAddress(targetIP) ==
    LET ip == ParseIP(targetIP)
    IN  IF ip # <<>>
        THEN IF To4(ip) # <<>>
             THEN IF targetIP = "127.0.0.1" THEN ParseIP("::1") ELSE To16(ip)
             ELSE ip
        ELSE ParseIP("::1")

handleRedirectQuery(m, q, targetIP) ==
    CASE q.Qtype = "A" ->
            [m EXCEPT !.Answer = Append(@, RR(q.Name, "A", ParseIP(targetIP)))]
      [] q.Qtype = "AAAA" ->
            [m EXCEPT !.Answer = Append(@, RR(q.Name, "AAAA", AAAAAddress(targetIP)))]
      [] q.Qtype = "CNAME" ->
            [m EXCEPT !.Answer = Append(@, RR(q.Name, "A", ParseIP(targetIP)))]
      [] OTHER ->
            [m EXCEPT !.Rcode = "NXDOMAIN"]

(***************************************************************************)
(* Server.forwardToUpstream and Server.handleDNSRequest.  An outcome       *)
(* records the lookups made, the messages sent to the upstream, whether    *)
(* the upstream exchange failed, the upstream's reply, and the messages    *)
(* written to the client.                                                  *)
(***************************************************************************)
ServFail(m) == [m EXCEPT !.Rcode = "SERVFAIL"]

\* a forward that writes nothing to the client when the exchange fails
forwardToUpstreamSilentOnError(m, originalReq, lookups) ==
    { [lookups |-> lookups, sent |-> <<originalReq>>, failed |-> TRUE,
       reply |-> <<>>, written |-> <<>>] }
    \cup
    { [lookups |-> lookups, sent |-> <<originalReq>>, failed |-> FALSE,
       reply |-> <<resp>>, written |-> <<resp>>] : resp \in UpstreamReplies(originalReq) }

forwardToUpstream(m, originalReq, lookups) ==
    { [lookups |-> lookups, sent |-> <<originalReq>>, failed |-> TRUE,
       reply |-> <<>>, written |-> <<ServFail(m)>>] }
    \cup
    { [lookups |-> lookups, sent |-> <<originalReq>>, failed |-> FALSE,
       reply |-> <<resp>>, written |-> <<resp>>] : resp \in UpstreamReplies(originalReq) }

RECURSIVE ProcessQuestions(_, _, _, _, _)
ProcessQuestions(maps, r, i, m, lookups) ==
    IF i > Len(r.Question)
    THEN {[lookups |-> lookups, sent |-> <<>>, failed |-> FALSE, reply |-> <<>>,
           written |-> <<m>>]}
    ELSE LET q == r.Question[i]
             queryName == ToLower(q.Name)
         IN  UNION { IF res.hit
                     THEN ProcessQuestions(maps, r, i + 1,
                                           handleRedirectQuery(m, q, res.target),
                                           Append(lookups, res))
                     ELSE forwardToUpstream(m, r, Append(lookups, res))
                     : res \in shouldRedirectQuery(maps, queryName) }

Maps == [exact |-> redirects, wildcard |-> redirectsWildcard]

handleDNSRequest(r) ==
    /\ serving
    /\ ~fatal
    /\ exchange = <<>>
    /\ \E o \in ProcessQuestions(Maps, r, 1, SetReply(r), <<>>) :
          exchange' = <<[req |-> r, lookups |-> o.lookups, sent |-> o.sent,
                         failed |-> o.failed, reply |-> o.reply, written |-> o.written]>>
    /\ UNCHANGED <<Redirects, service, redirects, redirectsWildcard, serving, upd, fatal>>
    /\ UNCHANGED <<startVars, mgrVars, proxyVars, lifeVars>>

\* the handler goroutine returns (line 90); the next request is then observed
handlerReturns ==
    /\ exchange # <<>>
    /\ exchange' = <<>>
    /\ UNCHANGED <<Redirects, service, redirects, redirectsWildcard, serving, upd, fatal>>
    /\ UNCHANGED <<startVars, mgrVars, proxyVars, lifeVars>>

(***************************************************************************)
(* The configuration operations of the redirect manager and the service    *)
(* life cycle as the menu loop of cmd/aegis/main.go drives them: the       *)
(* configuration is edited only while no server is running.                *)
(***************************************************************************)
Idle == [pc |-> "idle", enabled |-> <<>>, i |-> 0, pre |-> <<>>]

AddRedirect(r, enabled) ==
    /\ Len(Redirects) < MaxRules
    /\ Redirects' = Append(Redirects, DNSRedirect(r, enabled))
    /\ exchange' = <<>>
    /\ UNCHANGED <<service, redirects, redirectsWildcard, serving, upd, fatal>>
    /\ UNCHANGED <<startVars, mgrVars, proxyVars, lifeVars>>

RemoveRedirect(index) ==
    /\ index \in 1..Len(Redirects)
    /\ Redirects' = RemoveAt(Redirects, index)
    /\ exchange' = <<>>
    /\ UNCHANGED <<service, redirects, redirectsWildcard, serving, upd, fatal>>
    /\ UNCHANGED <<startVars, mgrVars, proxyVars, lifeVars>>

ToggleRedirect(index) ==
    /\ index \in 1..Len(Redirects)
    /\ Redirects' = [Redirects EXCEPT ![index].Enabled = ~@]
    /\ exchange' = <<>>
    /\ UNCHANGED <<service, redirects, redirectsWildcard, serving, upd, fatal>>
    /\ UNCHANGED <<startVars, mgrVars, proxyVars, lifeVars>>

\* StartService when Server.Start succeeds on one of the ports
StartServiceOk ==
    /\ ~serving
    /\ service' = "created"
    /\ redirects' = updateRedirects(Redirects).exact
    /\ redirectsWildcard' = updateRedirects(Redirects).wildcard
    /\ serving' = TRUE
    /\ exchange' = <<>>
    /\ UNCHANGED <<Redirects, upd, fatal>>
    /\ UNCHANGED <<startVars, mgrVars, proxyVars, lifeVars>>

\* StartService when Server.Start fails on every port
StartServiceFail ==
    /\ ~serving
    /\ service' = "created"
    /\ redirects' = updateRedirects(Redirects).exact
    /\ redirectsWildcard' = updateRedirects(Redirects).wildcard
    /\ exchange' = <<>>
    /\ UNCHANGED <<Redirects, serving, upd, fatal>>
    /\ UNCHANGED <<startVars, mgrVars, proxyVars, lifeVars>>

StopService ==
    /\ serving
    /\ serving' = FALSE
    /\ exchange' = <<>>
    /\ UNCHANGED <<Redirects, service, redirects, redirectsWildcard, upd, fatal>>
    /\ UNCHANGED <<startVars, mgrVars, proxyVars, lifeVars>>

\* the start-up and manager variables where they play no part
StartIdle ==
    /\ sp = [pc |-> "idle", idx |-> 0, result |-> "none", port |-> "",
             udpServer |-> "nil", tcpServer |-> "nil"]
    /\ attempts = <<>>
    /\ held = {}

MgrIdle ==
    /\ platform = "linux"
    /\ osDNS = <<>>
    /\ active = <<>>
    /\ fallbackDNS = <<>>
    /\ originalDNS = <<>>
    /\ AutoManageSystem = TRUE
    /\ mgrOps = <<>>
    /\ preDNS = <<>>

ProxyIdle ==
    /\ Proxy = [UpstreamURL |-> <<"http://localhost:8787">>, Headers |-> <<>>]
    /\ http = <<>>

LifeIdle ==
    life = [pc |-> "main", starts |-> 0, signalHandlers |-> 0, handlers |-> <<>>,
            signal |-> "none", restoredBy |-> {}, exit |-> "none", selfTest |-> "none",
            inFlight |-> [caller \in {"lifecycle", "signal"} |-> [op |-> "none", todo |-> {}]]]

Init ==
    /\ Redirects = <<>>
    /\ service = "nil"
    /\ redirects = EmptyMap
    /\ redirectsWildcard = EmptyMap
    /\ serving = FALSE
    /\ exchange = <<>>
    /\ upd = Idle
    /\ fatal = FALSE
    /\ StartIdle
    /\ ProxyIdle
    /\ LifeIdle
    /\ MgrIdle

Next ==
    \/ ~serving /\ \E r \in RulePool, enabled \in BOOLEAN : AddRedirect(r, enabled)
    \/ ~serving /\ \E index \in 1..MaxRules : RemoveRedirect(index)
    \/ ~serving /\ \E index \in 1..MaxRules : ToggleRedirect(index)
    \/ StartServiceOk
    \/ StartServiceFail
    \/ StopService
    \/ \E r \in Requests : handleDNSRequest(r)
    \/ handlerReturns

Spec == Init /\ [][Next]_vars

(***************************************************************************)
(* ReloadRedirects called on a serving resolver.  updateRedirects takes no *)
(* lock: it assigns a fresh exact map (line 38), a fresh wildcard map      *)
(* (line 39) and then inserts the enabled rules one by one (lines 41-58),  *)
(* while handler goroutines read both maps.  The configuration is edited   *)
(* between reloads; an edit during a reload would not be seen by it, since *)
(* the loop ranges over the slice GetEnabledRedirects returned.            *)
(***************************************************************************)
ReloadRequests ==
    {r \in Requests :
        /\ r.Id = 7
        /\ Len(r.Question) = 1
        /\ r.Question[1].Qtype = "A"
        /\ r.Question[1].Name \in {<<"E", ".", "C">>, <<"X", ".", "e", ".", "c">>}}

\* ReloadRedirects enters updateRedirects: line 38
updateRedirectsLine38 ==
    /\ serving
    /\ ~fatal
    /\ upd.pc = "idle"
    /\ redirects' = EmptyMap
    /\ upd' = [pc |-> "line39", enabled |-> <<>>, i |-> 0, pre |-> <<Maps>>]
    /\ exchange' = <<>>
    /\ UNCHANGED <<Redirects, service, redirectsWildcard, serving, fatal>>
    /\ UNCHANGED <<startVars, mgrVars, proxyVars, lifeVars>>

\* line 39, and the evaluation of the range expression of line 41
updateRedirectsLine39 ==
    /\ ~fatal
    /\ upd.pc = "line39"
    /\ redirectsWildcard' = EmptyMap
    /\ upd' = [upd EXCEPT !.pc = "loop", !.enabled = GetEnabledRedirects(Redirects), !.i = 1]
    /\ exchange' = <<>>
    /\ UNCHANGED <<Redirects, service, redirects, serving, fatal>>
    /\ UNCHANGED <<startVars, mgrVars, proxyVars, lifeVars>>

\* one iteration of the loop of lines 41-58
updateRedirectsLoop ==
    /\ ~fatal
    /\ upd.pc = "loop"
    /\ upd.i <= Len(upd.enabled)
    /\ redirects' = AddRedirectToMaps(Maps, upd.enabled[upd.i]).exact
    /\ redirectsWildcard' = AddRedirectToMaps(Maps, upd.enabled[upd.i]).wildcard
    /\ upd' = [upd EXCEPT !.i = @ + 1]
    /\ exchange' = <<>>
    /\ UNCHANGED <<Redirects, service, serving, fatal>>
    /\ UNCHANGED <<startVars, mgrVars, proxyVars, lifeVars>>

\* the loop is over: updateRedirects and ReloadRedirects return
updateRedirectsReturn ==
    /\ ~fatal
    /\ upd.pc = "loop"
    /\ upd.i > Len(upd.enabled)
    /\ upd' = Idle
    /\ exchange' = <<>>
    /\ UNCHANGED <<Redirects, service, redirects, redirectsWildcard, serving, fatal>>
    /\ UNCHANGED <<startVars, mgrVars, proxyVars, lifeVars>>

\* a handler reads a map while the loop inserts into it: the Go runtime may
\* abort the process ("concurrent map read and map write")
concurrentMapAccess ==
    /\ serving
    /\ ~fatal
    /\ upd.pc = "loop"
    /\ upd.i <= Len(upd.enabled)
    /\ fatal' = TRUE
    /\ exchange' = <<>>
    /\ UNCHANGED <<Redirects, service, redirects, redirectsWildcard, serving, upd>>
    /\ UNCHANGED <<startVars, mgrVars, proxyVars, lifeVars>>

InitReload ==
    /\ Redirects = <<>>
    /\ service = "created"
    /\ redirects = EmptyMap
    /\ redirectsWildcard = EmptyMap
    /\ serving = TRUE
    /\ exchange = <<>>
    /\ upd = Idle
    /\ fatal = FALSE
    /\ StartIdle
    /\ ProxyIdle
    /\ LifeIdle
    /\ MgrIdle

Quiet == upd.pc = "idle" /\ ~fatal

NextReload ==
    \/ Quiet /\ \E r \in RulePool, enabled \in BOOLEAN : AddRedirect(r, enabled)
    \/ Quiet /\ \E index \in 1..MaxRules : RemoveRedirect(index)
    \/ Quiet /\ \E index \in 1..MaxRules : ToggleRedirect(index)
    \/ updateRedirectsLine38
    \/ updateRedirectsLine39
    \/ updateRedirectsLoop
    \/ updateRedirectsReturn
    \/ concurrentMapAccess
    \/ \E r \in ReloadRequests : handleDNSRequest(r)
    \/ handlerReturns

SpecReload == InitReload /\ [][NextReload]_vars

(***************************************************************************)
(* The system-DNS manager (internal/dns/manager.go).  The host is the      *)
(* resolver list of each network interface, the empty list standing for    *)
(* automatic (DHCP) mode.  The OS tools print the configured resolvers of  *)
(* an interface one per line, and every command the manager runs may fail. *)
(***************************************************************************)
Ifaces == {"Wi-Fi", "Ethernet"}

localDNS == "127.0.0.1"

\* the resolver lists an interface starts with
ServerLists == {<<>>, <<"8.8.8.8", "8.8.4.4">>, <<"127.0.0.1">>, <<"127.0.0.11">>}

\* what getCurrentDNSSystemResolver finds: nothing, or a list under its key
FallbackPool ==
    {<<>>, <<[key |-> "resolv.conf", servers |-> <<"9.9.9.9">>]>>,
           <<[key |-> "system", servers |-> <<"9.9.9.9">>]>>}

FallbackKeys == {"system", "resolv.conf"}

\* strings.Contains(dnsOutputStr, "127.0.0.1") on the printed list
MentionsLocalhost(servers) ==
    \E k \in 1..Len(servers) : servers[k] \in {"127.0.0.1", "127.0.0.11"}

\* the record of one Manager operation: the error it returned, whether a
\* command of it failed, and the interfaces whose resolvers it wrote
MgrOp(op, err, failed, wrote) ==
    [op |-> op, err |-> err, failed |-> failed, wrote |-> wrote]

\* getCurrentDNSWindows on one interface: every printed line is appended
CaptureWindowsInterface(snapshot, i) ==
    IF Len(osDNS[i]) = 0 THEN snapshot
    ELSE MapSet(snapshot, i, (IF i \in DOMAIN snapshot THEN snapshot[i] ELSE <<>>) \o osDNS[i])

RECURSIVE CaptureWindows(_, _)
CaptureWindows(snapshot, todo) ==
    IF todo = {} THEN snapshot
    ELSE LET i == CHOOSE x \in todo : TRUE
         IN  CaptureWindows(CaptureWindowsInterface(snapshot, i), todo \ {i})

\* the commands of getCurrentDNSMacOS that can fail on one service
CaptureFailures == {"none", "get", "reset", "requery"}

\* a capture that records what the service prints, the local resolver
\* included
CaptureMacOSServiceAsFound(i, f) ==
    IF ~active[i] \/ f = "get" THEN [os |-> osDNS[i], rec |-> <<>>]
    ELSE [os |-> osDNS[i], rec |-> <<osDNS[i]>>]

\* one iteration of the loop of getCurrentDNSMacOS: the resolver list the
\* service is left with, and the list recorded for it, if any
CaptureMacOSService(i, f) ==
    IF ~active[i] \/ f = "get" THEN [os |-> osDNS[i], rec |-> <<>>]
    ELSE IF MentionsLocalhost(osDNS[i])
         THEN IF f = "reset" THEN [os |-> osDNS[i], rec |-> <<>>]
              ELSE IF f = "requery" THEN [os |-> <<>>, rec |-> <<>>]
              ELSE [os |-> <<>>, rec |-> << <<>> >>]
         ELSE [os |-> osDNS[i], rec |-> <<osDNS[i]>>]

\* lines 229-235: the fallback when no service was recorded
WithFallback(snapshot) ==
    IF DOMAIN snapshot = {} /\ fallbackDNS # <<>>
    THEN MapSet(snapshot, fallbackDNS[1].key, fallbackDNS[1].servers)
    ELSE snapshot

\* a capture that takes the Windows branch on every platform
GetCurrentDNSAsWindows(snapshot) ==
    /\ originalDNS' = CaptureWindows(snapshot, Ifaces)
    /\ mgrOps' = Append(mgrOps, MgrOp("capture", FALSE, FALSE, {}))
    /\ UNCHANGED <<platform, osDNS, active, fallbackDNS, AutoManageSystem, preDNS>>

\* GetCurrentDNS on a Manager whose snapshot is the given one
GetCurrentDNSOn(snapshot) ==
    /\ \/ /\ platform = "windows"
          /\ \/ /\ originalDNS' = CaptureWindows(snapshot, Ifaces)
                /\ mgrOps' = Append(mgrOps, MgrOp("capture", FALSE, FALSE, {}))
             \/ /\ originalDNS' = snapshot
                /\ mgrOps' = Append(mgrOps, MgrOp("capture", TRUE, TRUE, {}))
          /\ osDNS' = osDNS
       \/ /\ platform = "darwin"
          /\ \/ \E f \in [Ifaces -> CaptureFailures] :
                  LET out == [i \in Ifaces |-> CaptureMacOSService(i, f[i])]
                      recorded == {i \in Ifaces : out[i].rec # <<>>}
                      captured == [k \in (DOMAIN snapshot) \cup recorded |->
                                      IF k \in recorded THEN out[k].rec[1] ELSE snapshot[k]]
                  IN  /\ osDNS' = [i \in Ifaces |-> out[i].os]
                      /\ originalDNS' = WithFallback(captured)
                      /\ mgrOps' = Append(mgrOps, MgrOp("capture", FALSE,
                                              \E i \in Ifaces : f[i] # "none",
                                              {i \in Ifaces : out[i].os # osDNS[i]}))
             \/ /\ osDNS' = osDNS
                /\ originalDNS' = snapshot
                /\ mgrOps' = Append(mgrOps, MgrOp("capture", TRUE, TRUE, {}))
       \/ /\ platform \notin {"windows", "darwin"}
          /\ osDNS' = osDNS
          /\ originalDNS' = snapshot
          /\ mgrOps' = Append(mgrOps, MgrOp("capture", TRUE, FALSE, {}))
    /\ UNCHANGED <<platform, active, fallbackDNS, AutoManageSystem, preDNS>>

GetCurrentDNS == GetCurrentDNSOn(originalDNS)

\* every key of the snapshot taken for a network service
ManagedWithFallback(snapshot) == DOMAIN snapshot

\* the interfaces an operation of this platform writes to
Managed(snapshot) ==
    IF platform = "darwin" THEN (DOMAIN snapshot) \ FallbackKeys ELSE DOMAIN snapshot

\* isNetworkServiceActive: networksetup knows the service and reports it
\* connected
isNetworkServiceActive(serviceName) == serviceName \in DOMAIN active /\ active[serviceName]

\* setDNSWindows and setDNSMacOS: the interfaces the set command is run for
ApplyTargets ==
    IF platform = "darwin"
    THEN {i \in Managed(originalDNS) : isNetworkServiceActive(i)}
    ELSE Managed(originalDNS)

SetDNSToLocal ==
    /\ \/ /\ platform \in {"windows", "darwin"}
          /\ \E failing \in SUBSET ApplyTargets :
                /\ osDNS' = [i \in Ifaces |->
                                IF i \in ApplyTargets \ failing THEN <<localDNS>> ELSE osDNS[i]]
                /\ mgrOps' = Append(mgrOps,
                                MgrOp("apply",
                                      platform = "darwin" /\ ApplyTargets \ failing = {},
                                      failing # {},
                                      ApplyTargets \ failing))
       \/ /\ platform \notin {"windows", "darwin"}
          /\ osDNS' = osDNS
          /\ mgrOps' = Append(mgrOps, MgrOp("apply", TRUE, FALSE, {}))
    /\ UNCHANGED <<platform, active, fallbackDNS, originalDNS, AutoManageSystem, preDNS>>

\* netsh "add dnsservers" putting the server first, whatever the index
InsertAtFront(list, index, server) == <<server>> \o list

\* netsh "add dnsservers ... index=n" on the list of an interface
InsertAt(list, index, server) ==
    LET n == IF index > Len(list) + 1 THEN Len(list) + 1 ELSE index
    IN  SubSeq(list, 1, n - 1) \o <<server>> \o SubSeq(list, n, Len(list))

\* lines 130-135: the secondaries, from the j-th snapshot entry on; the
\* command for the entry numbered failing does not succeed
RECURSIVE AddSecondaries(_, _, _, _)
AddSecondaries(current, dnsServers, j, failing) ==
    IF j > Len(dnsServers) THEN current
    ELSE AddSecondaries(IF j = failing THEN current
                        ELSE InsertAt(current, j, dnsServers[j]),
                        dnsServers, j + 1, failing)

\* a restore that adds the snapshot entries to the list of the interface
RestoreWindowsAppending(current, dnsServers, failing) ==
    IF failing = 1 THEN current ELSE current \o dnsServers

\* restoreDNSWindows with the primary and not the secondaries
RestoreWindowsPrimaryOnly(current, dnsServers, failing) ==
    IF failing = 1 THEN current
    ELSE IF Len(dnsServers) = 0 THEN <<>>
    ELSE <<dnsServers[1]>>

\* one iteration of the loop of restoreDNSWindows
RestoreWindowsInterface(current, dnsServers, failing) ==
    IF Len(dnsServers) = 0
    THEN IF failing = 1 THEN current ELSE <<>>
    ELSE AddSecondaries(IF failing = 1 THEN current ELSE <<dnsServers[1]>>,
                        dnsServers, 2, failing)

\* one iteration of the loop of restoreDNSMacOS
RestoreMacOSService(current, dnsServers, failing) ==
    IF failing = 1 THEN current ELSE dnsServers

\* the number of commands restore runs for a snapshot entry
RestoreCommands(dnsServers) == IF Len(dnsServers) = 0 \/ platform = "darwin" THEN 1 ELSE Len(dnsServers)

\* RestoreOriginalDNS on a Manager whose snapshot is the given one
RestoreOriginalDNSOn(snapshot) ==
    /\ \/ /\ platform \in {"windows", "darwin"}
          /\ \E failing \in [Managed(snapshot) -> 0..MaxServers] :
                /\ \A i \in Managed(snapshot) : failing[i] <= RestoreCommands(snapshot[i])
                /\ osDNS' = [i \in Ifaces |->
                                IF i \notin Managed(snapshot) THEN osDNS[i]
                                ELSE IF platform = "windows"
                                     THEN RestoreWindowsInterface(osDNS[i], snapshot[i], failing[i])
                                     ELSE RestoreMacOSService(osDNS[i], snapshot[i], failing[i])]
                /\ mgrOps' = Append(mgrOps,
                                MgrOp("restore", FALSE,
                                      \E i \in Managed(snapshot) : failing[i] # 0,
                                      {i \in Managed(snapshot) : failing[i] # 1}))
       \/ /\ platform \notin {"windows", "darwin"}
          /\ osDNS' = osDNS
          /\ mgrOps' = Append(mgrOps, MgrOp("restore", TRUE, FALSE, {}))
    /\ UNCHANGED <<platform, active, fallbackDNS, originalDNS, AutoManageSystem, preDNS>>

RestoreOriginalDNS == RestoreOriginalDNSOn(originalDNS)

(***************************************************************************)
(* The Manager driven through its three operations, on every platform and  *)
(* every host configuration.  StartService calls capture and then apply,   *)
(* StopService and the signal handler call restore; the signal handler is  *)
(* installed right after capture, so restore can follow capture directly.  *)
(***************************************************************************)
CallGetCurrentDNS ==
    /\ Len(mgrOps) < MaxMgrOps
    /\ GetCurrentDNS
    /\ UNCHANGED <<resolverVars, startVars, proxyVars, lifeVars>>

CallSetDNSToLocal ==
    /\ Len(mgrOps) < MaxMgrOps
    /\ SetDNSToLocal
    /\ UNCHANGED <<resolverVars, startVars, proxyVars, lifeVars>>

CallRestoreOriginalDNS ==
    /\ Len(mgrOps) < MaxMgrOps
    /\ RestoreOriginalDNS
    /\ UNCHANGED <<resolverVars, startVars, proxyVars, lifeVars>>

InitManager ==
    /\ Redirects = <<>>
    /\ service = "nil"
    /\ redirects = EmptyMap
    /\ redirectsWildcard = EmptyMap
    /\ serving = FALSE
    /\ exchange = <<>>
    /\ upd = Idle
    /\ fatal = FALSE
    /\ StartIdle
    /\ ProxyIdle
    /\ LifeIdle
    /\ platform \in {"windows", "darwin", "linux"}
    /\ osDNS \in [Ifaces -> ServerLists]
    /\ active \in [Ifaces -> BOOLEAN]
    /\ fallbackDNS \in FallbackPool
    /\ platform # "darwin" => (fallbackDNS = <<>> /\ \A i \in Ifaces : active[i])
    /\ originalDNS = <<>>
    /\ AutoManageSystem = TRUE
    /\ mgrOps = <<>>
    /\ preDNS = osDNS

NextManager ==
    \/ CallGetCurrentDNS
    \/ CallSetDNSToLocal
    \/ CallRestoreOriginalDNS

SpecManager == InitManager /\ [][NextManager]_vars

(***************************************************************************)
(* StartService, step by step (unnamed/part_002 31-82, server.go 232-295). *)
(* Whether a bind succeeds is decided by the host when the bind is made:   *)
(* other processes take and release ports at any time.  A bind of a socket *)
(* this process already holds never succeeds.                              *)
(***************************************************************************)
portsReordered == <<":53", ":5353", ":8053", ":9053", ":10053">>

ports == <<":53", ":8053", ":5353", ":9053", ":10053">>

Socket(address, net, use) == [address |-> address, net |-> net, use |-> use]

\* the host lets this process bind the address
Bindable(address, net) ==
    \A sock \in held : ~(sock.address = address /\ sock.net = net)

\* a probe listener that is never closed
LeaveOpen(sockets, sock) == sockets

\* listener.Close() and tcpListener.Close() of testPortAvailability
Close(sockets, sock) == sockets \ {sock}

\* what testPortAvailability found for one address
Attempt(address, udp, tcp) == [port |-> address, udp |-> udp, tcp |-> tcp]

\* Server.Start returned an error: `continue`, or the loop is over (line 81)
StartFailed ==
    IF sp.idx < Len(ports)
    THEN [sp EXCEPT !.pc = "Start", !.idx = @ + 1]
    ELSE [sp EXCEPT !.pc = "returned", !.result = "error"]

\* lines 32-51: the service is created with a new Manager, the system DNS
\* captured and, when something was captured, the signal handler installed
StartServiceEnter ==
    /\ sp.pc = "idle"
    /\ service' = "created"
    /\ redirects' = updateRedirects(Redirects).exact
    /\ redirectsWildcard' = updateRedirects(Redirects).wildcard
    /\ GetCurrentDNSOn(<<>>)
    /\ life' = IF ~mgrOps'[Len(mgrOps')].err /\ DOMAIN originalDNS' # {}
               THEN [life EXCEPT !.starts = @ + 1, !.signalHandlers = @ + 1,
                                 !.handlers = Append(@, originalDNS')]
               ELSE [life EXCEPT !.starts = @ + 1]
    /\ sp' = [sp EXCEPT !.pc = "Start", !.idx = 1]
    /\ UNCHANGED <<Redirects, serving, exchange, upd, fatal, attempts, held>>
    /\ UNCHANGED proxyVars

\* Server.Start up to the UDP probe (server.go 232-285)
StartProbeUDP ==
    /\ sp.pc = "Start"
    /\ redirects' = updateRedirects(Redirects).exact
    /\ redirectsWildcard' = updateRedirects(Redirects).wildcard
    /\ LET address == ports[sp.idx]
           sock == Socket(address, "udp", "probe")
       IN  \/ /\ Bindable(address, "udp")
              /\ held' = Close(held \cup {sock}, sock)
              /\ sp' = [sp EXCEPT !.pc = "tcpProbe"]
              /\ attempts' = attempts
           \/ /\ held' = held
              /\ sp' = StartFailed
              /\ attempts' = Append(attempts, Attempt(address, FALSE, FALSE))
    /\ UNCHANGED <<Redirects, service, serving, exchange, upd, fatal, mgrVars>>
    /\ UNCHANGED <<proxyVars, lifeVars>>

\* the TCP probe (server.go 287-294)
StartProbeTCP ==
    /\ sp.pc = "tcpProbe"
    /\ LET address == ports[sp.idx]
           sock == Socket(address, "tcp", "probe")
       IN  \/ /\ Bindable(address, "tcp")
              /\ held' = Close(held \cup {sock}, sock)
              /\ sp' = [sp EXCEPT !.pc = "launch"]
              /\ attempts' = Append(attempts, Attempt(address, TRUE, TRUE))
           \/ /\ held' = held
              /\ sp' = StartFailed
              /\ attempts' = Append(attempts, Attempt(address, TRUE, FALSE))
    /\ UNCHANGED <<resolverVars, mgrVars>>
    /\ UNCHANGED <<proxyVars, lifeVars>>

\* the servers are created and their goroutines started; Start returns nil
\* and StartService points the system DNS at the resolver and returns the
\* port (server.go 241-276, part_002 62-78)
StartLaunch ==
    /\ sp.pc = "launch"
    /\ sp' = [sp EXCEPT !.pc = "returned", !.result = "ok", !.port = ports[sp.idx],
                        !.udpServer = "starting", !.tcpServer = "starting"]
    /\ IF AutoManageSystem /\ DOMAIN originalDNS # {}
       THEN SetDNSToLocal
       ELSE UNCHANGED mgrVars
    /\ UNCHANGED <<resolverVars, attempts, held>>
    /\ UNCHANGED <<proxyVars, lifeVars>>

\* the goroutine of lines 258-262: its bind may fail, which is only logged
ListenAndServeUDP ==
    /\ sp.udpServer = "starting"
    /\ \/ /\ Bindable(sp.port, "udp")
          /\ held' = held \cup {Socket(sp.port, "udp", "listener")}
          /\ sp' = [sp EXCEPT !.udpServer = "serving"]
          /\ serving' = TRUE
       \/ /\ held' = held
          /\ sp' = [sp EXCEPT !.udpServer = "failed"]
          /\ serving' = serving
    /\ UNCHANGED <<Redirects, service, redirects, redirectsWildcard, exchange, upd, fatal>>
    /\ UNCHANGED <<attempts, mgrVars>>
    /\ UNCHANGED <<proxyVars, lifeVars>>

\* the goroutine of lines 265-269
ListenAndServeTCP ==
    /\ sp.tcpServer = "starting"
    /\ \/ /\ Bindable(sp.port, "tcp")
          /\ held' = held \cup {Socket(sp.port, "tcp", "listener")}
          /\ sp' = [sp EXCEPT !.tcpServer = "serving"]
          /\ serving' = TRUE
       \/ /\ held' = held
          /\ sp' = [sp EXCEPT !.tcpServer = "failed"]
          /\ serving' = serving
    /\ UNCHANGED <<Redirects, service, redirects, redirectsWildcard, exchange, upd, fatal>>
    /\ UNCHANGED <<attempts, mgrVars>>
    /\ UNCHANGED <<proxyVars, lifeVars>>

InitStart ==
    /\ Redirects \in {<<>>} \cup {<<DNSRedirect(r, TRUE)>> : r \in RulePool}
    /\ service = "nil"
    /\ redirects = EmptyMap
    /\ redirectsWildcard = EmptyMap
    /\ serving = FALSE
    /\ exchange = <<>>
    /\ upd = Idle
    /\ fatal = FALSE
    /\ StartIdle
    /\ ProxyIdle
    /\ LifeIdle
    /\ platform \in {"windows", "darwin", "linux"}
    /\ osDNS \in [Ifaces -> {<<>>, <<"8.8.8.8", "8.8.4.4">>}]
    /\ active = [i \in Ifaces |-> TRUE]
    /\ fallbackDNS = <<>>
    /\ originalDNS = <<>>
    /\ AutoManageSystem \in BOOLEAN
    /\ mgrOps = <<>>
    /\ preDNS = osDNS

NextStart ==
    \/ StartServiceEnter
    \/ StartProbeUDP
    \/ StartProbeTCP
    \/ StartLaunch
    \/ ListenAndServeUDP
    \/ ListenAndServeTCP

SpecStart == InitStart /\ [][NextStart]_vars

(***************************************************************************)
(* The life of the process in simple mode (cmd/aegis/main.go 208-316; the  *)
(* proxy mode of startProxyServer, lines 84-167, has the same shape).      *)
(* StartService runs first; once it returned a port the deferred           *)
(* StopService is registered and the certificate is loaded as the argument *)
(* of the listen call.  log.Fatalf and os.Exit end the process at once,    *)
(* without running deferred calls.  A SIGINT or SIGTERM can arrive at any  *)
(* time; the goroutine of SetupSignalHandlers restores and then exits      *)
(* while the main goroutine keeps running.                                 *)
(***************************************************************************)
Exit(reason) == [life EXCEPT !.pc = "exited", !.exit = reason]

\* main.go 208-257: the certificate is prepared; an error is returned to
\* main, which ends the process with log.Fatalf
runSimpleMode ==
    /\ life.pc = "main"
    /\ \/ life' = [life EXCEPT !.pc = "StartService"]
       \/ life' = Exit("fatal")
    /\ UNCHANGED <<resolverVars, startVars, mgrVars, proxyVars>>

\* main.go 260-263: an error of StartService is returned to main, otherwise
\* the function goes on to the self-test
StartServiceReturns ==
    /\ life.pc = "StartService"
    /\ sp.pc = "returned"
    /\ life' = IF sp.result = "error" THEN Exit("fatal")
               ELSE [life EXCEPT !.pc = "TestDNSServer"]
    /\ UNCHANGED <<resolverVars, startVars, mgrVars, proxyVars>>

\* what TestDNSServer (part_002 109-157) can come back with: nil at once
\* when no redirect is enabled, nil when the resolver answered the query for
\* the first enabled redirect with its target, an error otherwise
TestOutcomes ==
    IF GetEnabledRedirects(Redirects) = <<>> THEN {"skipped"}
    ELSE (IF sp.udpServer = "serving" THEN {"ok"} ELSE {}) \cup {"failed"}

\* a failed self-test returned to main as an error
SelfTestAborts(outcome) ==
    IF outcome = "failed" THEN [life EXCEPT !.pc = "exited", !.exit = "fatal", !.selfTest = outcome]
    ELSE [life EXCEPT !.pc = "deferred", !.selfTest = outcome]

\* main.go 266-268 and 121-123: an error of the self-test is logged as a
\* warning; the function goes on and defers StopService
SelfTested(outcome) == [life EXCEPT !.pc = "deferred", !.selfTest = outcome]

TestDNSServer ==
    /\ life.pc = "TestDNSServer"
    /\ \E outcome \in TestOutcomes : life' = SelfTested(outcome)
    /\ UNCHANGED <<resolverVars, startVars, mgrVars, proxyVars>>

\* ssl.LoadCert (part_003 105-114), evaluated for the listen call of line
\* 315: log.Fatalf when the key pair does not load
LoadCert ==
    /\ life.pc = "deferred"
    /\ \/ life' = [life EXCEPT !.pc = "listening"]
       \/ life' = Exit("fatal")
    /\ UNCHANGED <<resolverVars, startVars, mgrVars, proxyVars>>

\* Server.Stop (server.go 297-316): both servers are shut down
ServerStop(server) == IF server = "serving" THEN "stopped" ELSE server

\* the listen call of line 315 returns: the proxy listener is closed and the
\* deferred function of lines 306-309 calls StopService
ListenReturns ==
    /\ life.pc = "listening"
    /\ life' = [life EXCEPT !.pc = "StopService"]
    /\ UNCHANGED <<resolverVars, startVars, mgrVars, proxyVars>>

\* StopService, part_002 92-95: the resolver is stopped first
StopServiceStop ==
    /\ life.pc = "StopService"
    /\ sp' = [sp EXCEPT !.udpServer = ServerStop(@), !.tcpServer = ServerStop(@)]
    /\ held' = {sock \in held : sock.use # "listener"}
    /\ serving' = FALSE
    /\ life' = [life EXCEPT !.pc = "restore"]
    /\ UNCHANGED <<Redirects, service, redirects, redirectsWildcard, exchange, upd, fatal>>
    /\ UNCHANGED <<attempts, mgrVars, proxyVars>>

\* StopService, part_002 97-105: when auto-manage is on the system DNS is
\* restored; the function returns and the process ends
StopServiceRestore ==
    /\ life.pc = "restore"
    /\ IF AutoManageSystem THEN RestoreOriginalDNS ELSE UNCHANGED mgrVars
    /\ life' = Exit("returned")
    /\ UNCHANGED <<resolverVars, startVars, proxyVars>>

\* a signal while no handler is installed ends the process
SignalDefault ==
    /\ life.pc # "exited"
    /\ life.signalHandlers = 0
    /\ life' = Exit("signal")
    /\ UNCHANGED <<resolverVars, startVars, mgrVars, proxyVars>>

\* manager.go 407-411: the goroutine receives the signal and restores
SignalHandlerRestore ==
    /\ life.pc # "exited"
    /\ life.signalHandlers > 0
    /\ life.signal = "none"
    /\ RestoreOriginalDNS
    /\ life' = [life EXCEPT !.signal = "restored"]
    /\ UNCHANGED <<resolverVars, startVars, proxyVars>>

\* a goroutine that ends the process only when its restore went through
SignalHandlerExitOnSuccess ==
    /\ life.pc # "exited"
    /\ life.signal = "restored"
    /\ ~mgrOps[Len(mgrOps)].failed
    /\ life' = Exit("signal")
    /\ UNCHANGED <<resolverVars, startVars, mgrVars, proxyVars>>

\* manager.go 411: os.Exit(0)
SignalHandlerExit ==
    /\ life.pc # "exited"
    /\ life.signal = "restored"
    /\ life' = Exit("signal")
    /\ UNCHANGED <<resolverVars, startVars, mgrVars, proxyVars>>

InitLife ==
    /\ Redirects = <<>>
    /\ service = "nil"
    /\ redirects = EmptyMap
    /\ redirectsWildcard = EmptyMap
    /\ serving = FALSE
    /\ exchange = <<>>
    /\ upd = Idle
    /\ fatal = FALSE
    /\ StartIdle
    /\ ProxyIdle
    /\ LifeIdle
    /\ platform \in {"windows", "darwin", "linux"}
    /\ osDNS \in [Ifaces -> {<<>>, <<"8.8.8.8", "8.8.4.4">>}]
    /\ active = [i \in Ifaces |-> TRUE]
    /\ fallbackDNS = <<>>
    /\ originalDNS = <<>>
    /\ AutoManageSystem \in BOOLEAN
    /\ mgrOps = <<>>
    /\ preDNS = osDNS

NextLife ==
    \/ runSimpleMode
    \/ life.pc = "StartService" /\ StartServiceEnter
    \/ life.pc = "StartService" /\ StartProbeUDP
    \/ life.pc = "StartService" /\ StartProbeTCP
    \/ life.pc = "StartService" /\ StartLaunch
    \/ StartServiceReturns
    \/ TestDNSServer
    \/ life.pc # "exited" /\ ListenAndServeUDP
    \/ life.pc # "exited" /\ ListenAndServeTCP
    \/ LoadCert
    \/ ListenReturns
    \/ StopServiceStop
    \/ StopServiceRestore
    \/ SignalDefault
    \/ SignalHandlerRestore
    \/ SignalHandlerExit

SpecLife == InitLife /\ [][NextLife]_vars

(***************************************************************************)
(* The same life of the process with a redirect configured, so that the    *)
(* self-test sends its query, on hosts where capture fails (a platform     *)
(* without DNS management), yields nothing (Windows, every interface in    *)
(* automatic mode) or yields a snapshot.                                   *)
(***************************************************************************)
InitDegraded ==
    /\ Redirects \in {<<DNSRedirect(r, TRUE)>> :
                         r \in {x \in RulePool : x.Target = "10.0.0.5"}}
    /\ service = "nil"
    /\ redirects = EmptyMap
    /\ redirectsWildcard = EmptyMap
    /\ serving = FALSE
    /\ exchange = <<>>
    /\ upd = Idle
    /\ fatal = FALSE
    /\ StartIdle
    /\ ProxyIdle
    /\ LifeIdle
    /\ platform \in {"windows", "darwin", "linux"}
    /\ osDNS \in {[i \in Ifaces |-> IF i = "Ethernet" THEN servers ELSE <<>>] :
                    servers \in {<<>>, <<"8.8.8.8", "8.8.4.4">>}}
    /\ active = [i \in Ifaces |-> TRUE]
    /\ fallbackDNS = <<>>
    /\ originalDNS = <<>>
    /\ AutoManageSystem = TRUE
    /\ mgrOps = <<>>
    /\ preDNS = osDNS

SpecDegraded == InitDegraded /\ [][NextLife]_vars

(***************************************************************************)
(* The life of the process on the platforms where the signal goroutine is  *)
(* installed.  The goroutine of SetupSignalHandlers is scheduled like any  *)
(* other: once RestoreOriginalDNS has returned to it, it goes on to        *)
(* os.Exit unless the process ends before.                                 *)
(***************************************************************************)
InitSignal ==
    /\ InitLife
    /\ platform \in {"windows", "darwin"}
    /\ osDNS = [i \in Ifaces |-> IF i = "Ethernet" THEN <<"8.8.8.8", "8.8.4.4">> ELSE <<>>]
    /\ AutoManageSystem

SpecSignal == InitSignal /\ [][NextLife]_vars /\ WF_vars(SignalHandlerExit)

(***************************************************************************)
(* The Manager called from two goroutines.  SetDNSToLocal and              *)
(* RestoreOriginalDNS run one OS command after the other, in the order of  *)
(* a map iteration, and the Manager holds no lock (manager.go 15-20): the  *)
(* goroutine of SetupSignalHandlers can run its restore between any two    *)
(* commands of the lifecycle.  Here an operation is a sequence of steps,   *)
(* one per interface; life.inFlight records, for each caller, the          *)
(* operation it is inside and the interfaces it has still to write.  The   *)
(* start of the resolver is taken as having succeeded and every command    *)
(* succeeds.                                                               *)
(***************************************************************************)
NoCall == [op |-> "none", todo |-> {}]

Call(op, todo) == [op |-> op, todo |-> todo]

\* part_002 52-68: Server.Start succeeded on the first port; the lifecycle
\* enters SetDNSToLocal when auto-manage is on and the snapshot non-empty
SetDNSToLocalBegin ==
    /\ life.pc = "main"
    /\ sp.pc = "Start"
    /\ IF AutoManageSystem /\ DOMAIN originalDNS # {}
       THEN /\ life' = [life EXCEPT !.inFlight.lifecycle = Call("apply", ApplyTargets)]
            /\ sp' = [sp EXCEPT !.pc = "SetDNSToLocal", !.port = ports[1]]
       ELSE /\ life' = [life EXCEPT !.pc = "listening"]
            /\ sp' = [sp EXCEPT !.pc = "returned", !.result = "ok", !.port = ports[1]]
    /\ UNCHANGED <<resolverVars, attempts, held, mgrVars, proxyVars>>

\* one iteration of the loop of setDNSWindows or setDNSMacOS
SetInterface(i) ==
    /\ life.pc # "exited"
    /\ life.inFlight.lifecycle.op = "apply"
    /\ i \in life.inFlight.lifecycle.todo
    /\ osDNS' = [osDNS EXCEPT ![i] = <<localDNS>>]
    /\ life' = [life EXCEPT !.inFlight.lifecycle.todo = @ \ {i}]
    /\ UNCHANGED <<platform, active, fallbackDNS, originalDNS, AutoManageSystem, mgrOps, preDNS>>
    /\ UNCHANGED <<resolverVars, startVars, proxyVars>>

\* SetDNSToLocal returns, StartService returns the port and the proxy
\* starts listening
SetDNSToLocalEnd ==
    /\ life.pc # "exited"
    /\ life.inFlight.lifecycle = Call("apply", {})
    /\ life' = [life EXCEPT !.inFlight.lifecycle = NoCall, !.pc = "listening"]
    /\ sp' = [sp EXCEPT !.pc = "returned", !.result = "ok"]
    /\ UNCHANGED <<resolverVars, attempts, held, mgrVars, proxyVars>>

\* StopService, part_002 97-100: the lifecycle enters RestoreOriginalDNS
\* when auto-manage is on, otherwise the process ends
StopServiceRestoreBegin ==
    /\ life.pc = "restore"
    /\ life' = IF AutoManageSystem
               THEN [life EXCEPT !.pc = "RestoreOriginalDNS",
                                 !.inFlight.lifecycle = Call("restore", Managed(originalDNS))]
               ELSE Exit("returned")
    /\ UNCHANGED <<resolverVars, startVars, mgrVars, proxyVars>>

\* manager.go 407-410: the goroutine receives the signal and enters
\* RestoreOriginalDNS
SignalRestoreBegin ==
    /\ life.pc # "exited"
    /\ life.signalHandlers > 0
    /\ life.signal = "none"
    /\ life' = [life EXCEPT !.signal = "handling",
                            !.inFlight.signal = Call("restore", Managed(originalDNS))]
    /\ UNCHANGED <<resolverVars, startVars, mgrVars, proxyVars>>

\* one iteration of the loop of restoreDNSWindows or restoreDNSMacOS, run
\* by the given caller
RestoreInterface(caller, i) ==
    /\ life.pc # "exited"
    /\ life.inFlight[caller].op = "restore"
    /\ i \in life.inFlight[caller].todo
    /\ osDNS' = [osDNS EXCEPT ![i] =
                    IF platform = "windows"
                    THEN RestoreWindowsInterface(osDNS[i], originalDNS[i], 0)
                    ELSE RestoreMacOSService(osDNS[i], originalDNS[i], 0)]
    /\ life' = [life EXCEPT !.inFlight[caller].todo = @ \ {i}]
    /\ UNCHANGED <<platform, active, fallbackDNS, originalDNS, AutoManageSystem, mgrOps, preDNS>>
    /\ UNCHANGED <<resolverVars, startVars, proxyVars>>

\* RestoreOriginalDNS returns to StopService, and the process ends
StopServiceRestoreEnd ==
    /\ life.pc = "RestoreOriginalDNS"
    /\ life.inFlight.lifecycle = Call("restore", {})
    /\ life' = [Exit("returned") EXCEPT !.inFlight.lifecycle = NoCall]
    /\ UNCHANGED <<resolverVars, startVars, mgrVars, proxyVars>>

\* RestoreOriginalDNS returns to the goroutine, which goes on to os.Exit
SignalRestoreEnd ==
    /\ life.pc # "exited"
    /\ life.inFlight.signal = Call("restore", {})
    /\ life' = [life EXCEPT !.signal = "restored", !.inFlight.signal = NoCall]
    /\ UNCHANGED <<resolverVars, startVars, mgrVars, proxyVars>>

NextConcurrent ==
    \/ life.pc = "main" /\ StartServiceEnter
    \/ SetDNSToLocalBegin
    \/ \E i \in Ifaces : SetInterface(i)
    \/ SetDNSToLocalEnd
    \/ ListenReturns
    \/ StopServiceStop
    \/ StopServiceRestoreBegin
    \/ \E caller \in {"lifecycle", "signal"}, i \in Ifaces : RestoreInterface(caller, i)
    \/ StopServiceRestoreEnd
    \/ SignalDefault
    \/ SignalRestoreBegin
    \/ SignalRestoreEnd
    \/ SignalHandlerExit

SpecConcurrent == InitLife /\ [][NextConcurrent]_vars

(***************************************************************************)
(* The menu loop (cmd/aegis/main.go 53-80).  "start" runs                  *)
(* startProxyServer, which returns to the menu when StartService fails or  *)
(* when the proxy listener returns; the operator can then start again, in  *)
(* the same process.  Every StartService makes a new Manager and, when its *)
(* capture found something, one more signal goroutine, each bound to the   *)
(* Manager it was started from: life.handlers holds their snapshots.       *)
(* Server.Start is taken as a whole here: it succeeds on the first port or *)
(* fails on all of them.                                                   *)
(***************************************************************************)
MaxStarts == 2

\* a Service that has not been started
NewService ==
    [pc |-> "idle", idx |-> 0, result |-> "none", port |-> "",
     udpServer |-> "nil", tcpServer |-> "nil"]

\* main.go 59-62 and 84-115: the operator chooses "start", a certificate is
\* selected and StartService is called
startProxyServer ==
    /\ life.pc = "main"
    /\ life.starts < MaxStarts
    /\ life' = [life EXCEPT !.pc = "StartService"]
    /\ UNCHANGED <<resolverVars, startVars, mgrVars, proxyVars>>

\* Server.Start returns nil for the first port
ServerStartOk ==
    /\ life.pc = "StartService"
    /\ sp.pc = "Start"
    /\ sp' = [sp EXCEPT !.pc = "launch"]
    /\ UNCHANGED <<resolverVars, attempts, held, mgrVars, proxyVars, lifeVars>>

\* Server.Start returns an error for every port (part_002 54-58, 81)
ServerStartFails ==
    /\ life.pc = "StartService"
    /\ sp.pc = "Start"
    /\ sp' = [sp EXCEPT !.pc = "returned", !.result = "error", !.idx = Len(ports)]
    /\ UNCHANGED <<resolverVars, attempts, held, mgrVars, proxyVars, lifeVars>>

\* main.go 115-118: an error of StartService is returned to the menu loop,
\* which logs it; otherwise the function goes on to the self-test
StartServiceReturnsToMenu ==
    /\ life.pc = "StartService"
    /\ sp.pc = "returned"
    /\ IF sp.result = "error"
       THEN /\ life' = [life EXCEPT !.pc = "main"]
            /\ sp' = NewService
       ELSE /\ life' = [life EXCEPT !.pc = "TestDNSServer"]
            /\ sp' = sp
    /\ UNCHANGED <<resolverVars, attempts, held, mgrVars, proxyVars>>

\* the deferred StopService restores when auto-manage is on, and
\* startProxyServer returns to the menu loop
StopServiceReturnsToMenu ==
    /\ life.pc = "restore"
    /\ IF AutoManageSystem THEN RestoreOriginalDNS ELSE UNCHANGED mgrVars
    /\ life' = [life EXCEPT !.pc = "main"]
    /\ sp' = NewService
    /\ UNCHANGED <<resolverVars, attempts, held, proxyVars>>

\* manager.go 407-410 in the goroutine of the h-th SetupSignalHandlers call:
\* every goroutine receives the signal on its own channel and restores the
\* snapshot of its own Manager
SignalHandlerRestoreOf(h) ==
    /\ life.pc # "exited"
    /\ h \in 1..Len(life.handlers)
    /\ h \notin life.restoredBy
    /\ RestoreOriginalDNSOn(life.handlers[h])
    /\ life' = [life EXCEPT !.signal = "restored", !.restoredBy = @ \cup {h}]
    /\ UNCHANGED <<resolverVars, startVars, proxyVars>>

\* GetServiceStatus (part_002 171-182): "running" is whether the
\* module-scoped service has been assigned, which StartService does first
\* of all and nothing undoes
GetServiceStatus == [running |-> service # "nil", port |-> sp.port]

InitMenu ==
    /\ Redirects = <<>>
    /\ service = "nil"
    /\ redirects = EmptyMap
    /\ redirectsWildcard = EmptyMap
    /\ serving = FALSE
    /\ exchange = <<>>
    /\ upd = Idle
    /\ fatal = FALSE
    /\ StartIdle
    /\ ProxyIdle
    /\ LifeIdle
    /\ platform \in {"windows", "darwin", "linux"}
    /\ osDNS \in {[i \in Ifaces |-> IF i = "Ethernet" THEN servers ELSE <<>>] :
                    servers \in {<<>>, <<"8.8.8.8", "8.8.4.4">>}}
    /\ active = [i \in Ifaces |-> TRUE]
    /\ fallbackDNS = <<>>
    /\ originalDNS = <<>>
    /\ AutoManageSystem \in BOOLEAN
    /\ mgrOps = <<>>
    /\ preDNS = osDNS

NextMenu ==
    \/ startProxyServer
    \/ life.pc = "StartService" /\ StartServiceEnter
    \/ ServerStartOk
    \/ ServerStartFails
    \/ life.pc = "StartService" /\ StartLaunch
    \/ StartServiceReturnsToMenu
    \/ TestDNSServer
    \/ LoadCert
    \/ ListenReturns
    \/ StopServiceStop
    \/ StopServiceReturnsToMenu
    \/ SignalDefault
    \/ \E h \in 1..MaxStarts : SignalHandlerRestoreOf(h)
    \/ SignalHandlerExit

SpecMenu == InitMenu /\ [][NextMenu]_vars

(***************************************************************************)
(* The reverse proxy handler (cmd/aegis/main.go 327-352) and the error     *)
(* handler of the Fiber app (main.go 126-138, 271-283).  A string is the   *)
(* sequence of its parts, the empty string the empty sequence; a header    *)
(* set is a function from header names to values.                          *)
(***************************************************************************)
Hosts == {<<"localhost">>, <<"real.example">>, <<"localhost:8443">>}

Paths == {<<"/">>, <<"/v">>}

QueryStrings == {<<>>, <<"a=1">>}

InboundHeaders ==
    { <<>>,
      [n \in {"X-Epic-URL"} |-> <<"https://", "o.example", "/w">>],
      [n \in {"X-Epic-URL"} |-> <<>>],
      [n \in {"X-Telemachus-Identifier"} |-> <<"client">>],
      [n \in {"X-Epic-URL", "X-Telemachus-Identifier"} |->
          IF n = "X-Epic-URL" THEN <<"https://", "o.example", "/w">> ELSE <<"client">>] }

HTTPRequests ==
    {[Scheme |-> <<"https">>, Host |-> h, Path |-> p, QueryString |-> q, Header |-> hd] :
        h \in Hosts, p \in Paths, q \in QueryStrings, hd \in InboundHeaders}

\* the values config.Config.Proxy takes
UpstreamURLs == {<<"http://localhost:8787">>, <<"https://up.example", "/api">>}

HeaderOverlays ==
    { <<>>,
      [n \in {"X-Telemachus-Identifier"} |-> <<>>],
      [n \in {"X-Telemachus-Identifier"} |-> <<"id">>],
      [n \in {"X-Epic-URL"} |-> <<"https://", "fixed.example", "/">>],
      [n \in {"X-Epic-URL", "X-Telemachus-Identifier"} |->
          IF n = "X-Epic-URL" THEN <<"https://", "fixed.example", "/">> ELSE <<"id">>] }

\* RequestHeader.Peek: the value of the header, empty when it is absent
Peek(header, key) == IF key \in DOMAIN header THEN header[key] ELSE <<>>

\* RequestHeader.Set
HeaderSet(header, key, value) == MapSet(header, key, value)

\* URI.String(): the full URI of the request
FullURI(req) ==
    req.Scheme \o <<"://">> \o req.Host \o req.Path
        \o (IF req.QueryString # <<>> THEN <<"?">> \o req.QueryString ELSE <<>>)

\* lines 330-337 without the first branch: the client's header is not looked at first
EpicURLHostFirst(req) ==
    IF req.Host # <<"localhost">> THEN FullURI(req) ELSE Peek(req.Header, "X-Epic-URL")

\* lines 330-337: the value the X-Epic-URL header is set to
EpicURL(req) ==
    IF Peek(req.Header, "X-Epic-URL") # <<>> THEN Peek(req.Header, "X-Epic-URL")
    ELSE IF req.Host # <<"localhost">> THEN FullURI(req)
    ELSE Peek(req.Header, "X-Epic-URL")

\* the loop of lines 340-342 left out
NoOverlay(header, overlay) == header

\* lines 340-342: every configured header is set on the request
SetCustomHeaders(header, overlay) ==
    [n \in (DOMAIN header) \cup (DOMAIN overlay) |->
        IF n \in DOMAIN overlay THEN overlay[n] ELSE header[n]]

\* line 345 with the "?" only before a query string
UpstreamURLWithoutEmptyQuery(req) ==
    Proxy.UpstreamURL \o req.Path
        \o (IF req.QueryString # <<>> THEN <<"?">> \o req.QueryString ELSE <<>>)

\* line 345
UpstreamURL(req) == Proxy.UpstreamURL \o req.Path \o <<"?">> \o req.QueryString

\* what proxy.Do may come back with: the upstream's response, or an error
UpstreamResponses == {[Status |-> 200, Body |-> <<"upstream">>], [Status |-> 404, Body |-> <<>>]}

UpstreamErrors == {<<"dial tcp: connection refused">>, <<"timeout">>}

\* the response of a Fiber context before a handler has written to it
NewResponse == [Status |-> 200, Body |-> <<>>]

\* the ErrorHandler of the Fiber app: c.JSON with the three fields
ErrorHandler(response, err) ==
    [response EXCEPT !.Body = <<[code |-> 500, message |-> "Internal Server Error",
                                 error |-> err]>>]

\* one request through the handler, the upstream call and the error handler
Handler(req) ==
    /\ http = <<>>
    /\ LET header == SetCustomHeaders(HeaderSet(req.Header, "X-Epic-URL", EpicURL(req)),
                                     Proxy.Headers)
           outbound == [URL |-> UpstreamURL(req), Header |-> header]
       IN  \/ \E resp \in UpstreamResponses :
                 http' = <<[req |-> req, outbound |-> outbound, err |-> <<>>,
                            response |-> resp]>>
           \/ \E err \in UpstreamErrors :
                 http' = <<[req |-> req, outbound |-> outbound, err |-> <<err>>,
                            response |-> ErrorHandler(NewResponse, err)]>>
    /\ UNCHANGED <<resolverVars, startVars, mgrVars, lifeVars, Proxy>>

\* the response has been sent; the next request is then observed
HandlerDone ==
    /\ http # <<>>
    /\ http' = <<>>
    /\ UNCHANGED <<resolverVars, startVars, mgrVars, lifeVars, Proxy>>

InitProxy ==
    /\ Redirects = <<>>
    /\ service = "created"
    /\ redirects = EmptyMap
    /\ redirectsWildcard = EmptyMap
    /\ serving = TRUE
    /\ exchange = <<>>
    /\ upd = Idle
    /\ fatal = FALSE
    /\ StartIdle
    /\ MgrIdle
    /\ LifeIdle
    /\ Proxy \in [UpstreamURL : UpstreamURLs, Headers : HeaderOverlays]
    /\ http = <<>>

NextProxy ==
    \/ \E req \in HTTPRequests : Handler(req)
    \/ HandlerDone

SpecProxy == InitProxy /\ [][NextProxy]_vars

(***************************************************************************)
(* Vocabulary of the properties.                                           *)
(***************************************************************************)
X == exchange[1]

\* the normalised form of a name: lower case, with a trailing dot
Canonical(name) ==
    LET l == ToLower(name)
    IN  IF Len(l) > 0 /\ l[Len(l)] = "." THEN l ELSE Append(l, ".")

IsWildcard(rule) ==
    LET d == Canonical(rule.Domain) IN Len(d) >= 2 /\ d[1] = "*" /\ d[2] = "."

\* the suffix s of a wildcard rule *.s, normalised
SuffixOf(rule) ==
    LET d == Canonical(rule.Domain) IN SubSeq(d, 3, Len(d))

\* a rule matches a name as the specification defines matching: an exact rule
\* by equality of the normalised names, a wildcard rule *.s when the normalised
\* name ends with "." followed by s or equals s
Matches(rule, name) ==
    LET n == Canonical(name)
    IN  IF IsWildcard(rule)
        THEN HasSuffix(n, Dot \o SuffixOf(rule)) \/ n = SuffixOf(rule)
        ELSE n = Canonical(rule.Domain)

EnabledIndexes == {i \in 1..Len(Redirects) : Redirects[i].Enabled}

SingleQuestion(qtype) ==
    /\ exchange # <<>>
    /\ Len(X.req.Question) = 1
    /\ X.req.Question[1].Qtype = qtype

ARecords(m) == SelectSeq(m.Answer, LAMBDA rr : rr.Rrtype = "A")

AAAARecords(m) == SelectSeq(m.Answer, LAMBDA rr : rr.Rrtype = "AAAA")

\* the response is one message carrying exactly one A record for target t,
\* TTL 300, under the request's ID
AnsweredWithA(t) ==
    /\ Len(X.written) = 1
    /\ Len(ARecords(X.written[1])) = 1
    /\ ARecords(X.written[1])[1].Data = ParseIP(t)
    /\ ARecords(X.written[1])[1].Ttl = 300
    /\ X.written[1].Id = X.req.Id

(***************************************************************************)
(* C1.  As stated: for every enabled exact rule (d -> t) and every request *)
(* whose one question has name d (any case, with or without trailing dot)  *)
(* and qtype A, the response holds exactly one A record with rdata t and   *)
(* TTL 300 under the request's ID.                                         *)
(***************************************************************************)
C1_AsStated ==
    \A i \in EnabledIndexes :
        ( /\ ~IsWildcard(Redirects[i])
          /\ SingleQuestion("A")
          /\ Matches(Redirects[i], X.req.Question[1].Name) )
        => AnsweredWithA(Redirects[i].Target)

\* no later enabled exact rule has the same normalised name
LastForName(i) ==
    \A j \in EnabledIndexes :
        (j > i /\ ~IsWildcard(Redirects[j]))
        => Canonical(Redirects[j].Domain) # Canonical(Redirects[i].Domain)

\* C1, amended: the same, for every enabled exact rule (d -> t) that no later
\* enabled exact rule with the same normalised name overrides.
C1_ExactRuleAnswered ==
    \A i \in EnabledIndexes :
        ( /\ ~IsWildcard(Redirects[i])
          /\ LastForName(i)
          /\ SingleQuestion("A")
          /\ Matches(Redirects[i], X.req.Question[1].Name) )
        => AnsweredWithA(Redirects[i].Target)

\* an A query for E.C (upper case, no trailing dot) answered from the exact rule
C1_Witness ==
    /\ SingleQuestion("A")
    /\ X.req.Question[1].Name = <<"E", ".", "C">>
    /\ \E i \in EnabledIndexes :
          /\ ~IsWildcard(Redirects[i])
          /\ LastForName(i)
          /\ Matches(Redirects[i], X.req.Question[1].Name)
          /\ Redirects[i].Target = "10.0.0.5"
    /\ AnsweredWithA("10.0.0.5")

(***************************************************************************)
(* C2.  As stated: for every enabled wildcard rule *.s -> t and every      *)
(* query name that normalised ends in ".s" or equals s, shouldRedirectQuery*)
(* reports a hit with target t, and an A query is answered with one A      *)
(* record for t with TTL 300.                                              *)
(***************************************************************************)
WildcardHit(i) ==
    /\ X.lookups[1] = [target |-> Redirects[i].Target, hit |-> TRUE]
    /\ X.req.Question[1].Qtype = "A" => AnsweredWithA(Redirects[i].Target)

OnlyRuleFor(i, name) ==
    \A j \in EnabledIndexes \ {i} :
        IF IsWildcard(Redirects[j])
        THEN IF SuffixOf(Redirects[j]) = SuffixOf(Redirects[i])
             THEN j < i
             ELSE ~HasSuffix(Canonical(name), SuffixOf(Redirects[j]))
        ELSE Canonical(Redirects[j].Domain) # Canonical(name)

C3_OnlyMatchingNamesRedirected ==
    exchange # <<>> =>
        \A k \in 1..Len(X.lookups) :
            X.lookups[k].hit =>
                \E i \in EnabledIndexes : Matches(Redirects[i], X.req.Question[k].Name)

(***************************************************************************)
(* C4.  A request with a question, in which no enabled rule matches any    *)
(* question name, is forwarded unmodified to the upstream and the message  *)
(* written to the client is exactly the upstream's reply.                  *)
(***************************************************************************)
NoRuleMatchesRequest ==
    /\ exchange # <<>>
    /\ Len(X.req.Question) >= 1
    /\ \A k \in 1..Len(X.req.Question) :
          \A i \in EnabledIndexes : ~Matches(Redirects[i], X.req.Question[k].Name)

C4_MissForwardedVerbatim ==
    NoRuleMatchesRequest =>
        /\ X.sent = <<X.req>>
        /\ ~X.failed => X.written = X.reply

(***************************************************************************)
(* C9.  When forwarding to the upstream fails, exactly one response is     *)
(* written, with RCODE SERVFAIL, no answers and the request's ID.          *)
(***************************************************************************)
C9_ForwardFailureIsServfail ==
    (exchange # <<>> /\ X.failed) =>
        /\ Len(X.written) = 1
        /\ X.written[1].Rcode = "SERVFAIL"
        /\ X.written[1].Answer = <<>>
        /\ X.written[1].Id = X.req.Id

(***************************************************************************)
(* C10.  In a response the handler synthesises, every AAAA question        *)
(* contributes exactly one AAAA record, in order, whose address is ::1     *)
(* when the rule's target is 127.0.0.1, the IPv4-mapped IPv6 form of the   *)
(* target when it is another IPv4 literal, and the target itself when it   *)
(* is an IPv6 literal.                                                     *)
(***************************************************************************)
IPv4Bytes(lit) ==
    CASE lit = "127.0.0.1" -> <<127, 0, 0, 1>>
      [] lit = "10.0.0.5"  -> <<10, 0, 0, 5>>
      [] OTHER -> <<>>

ExpectedAAAA(target) ==
    IF target = "127.0.0.1" THEN <<0, 0, 0, 0, 0, 0, 0, 0, 0, 0, 0, 0, 0, 0, 0, 1>>
    ELSE IF IPv4Bytes(target) # <<>> THEN V4InV6Prefix \o IPv4Bytes(target)
    ELSE ParseIP(target)

\* the indexes of the AAAA questions of the request, in order
RECURSIVE AAAAQuestions(_, _)
AAAAQuestions(qs, k) ==
    IF k > Len(qs) THEN <<>>
    ELSE (IF qs[k].Qtype = "AAAA" THEN <<k>> ELSE <<>>) \o AAAAQuestions(qs, k + 1)

C10_AAAAAddress ==
    (exchange # <<>> /\ X.sent = <<>>) =>
        LET idx == AAAAQuestions(X.req.Question, 1)
            recs == AAAARecords(X.written[1])
        IN  /\ Len(X.written) = 1
            /\ Len(recs) = Len(idx)
            /\ \A k \in 1..Len(idx) :
                  /\ recs[k].Data = ExpectedAAAA(X.lookups[idx[k]].target)
                  /\ recs[k].Name = X.req.Question[idx[k]].Name

\* an AAAA query answered from a rule whose target is 127.0.0.1
C10_Witness ==
    /\ SingleQuestion("AAAA")
    /\ X.sent = <<>>
    /\ X.lookups[1] = [target |-> "127.0.0.1", hit |-> TRUE]
    /\ Len(AAAARecords(X.written[1])) = 1
    /\ AAAARecords(X.written[1])[1].Data = <<0, 0, 0, 0, 0, 0, 0, 0, 0, 0, 0, 0, 0, 0, 0, 1>>

(***************************************************************************)
(* C5.  A query handled while updateRedirects runs resolves against the    *)
(* complete pre-reload maps or the complete post-reload maps, never        *)
(* against an empty, partially filled or mixed pair of maps.               *)
(***************************************************************************)
C5_ReloadAtomic ==
    (exchange # <<>> /\ upd.pc # "idle") =>
        Maps \in {upd.pre[1], updateRedirects(Redirects)}

(***************************************************************************)
(* C6.  Capture followed immediately by restore.                           *)
(***************************************************************************)
\* the Manager has run capture and then restore, and nothing else
CapturedThenRestored ==
    /\ Len(mgrOps) = 2
    /\ mgrOps[1].op = "capture"
    /\ mgrOps[2].op = "restore"

\* the interfaces restore writes to: the keys of the snapshot but the
\* reserved keys of the fallback
ManagedInterfaces == (DOMAIN originalDNS) \cap Ifaces

\* C6 as stated: capture followed immediately by restore is an identity on
\* the host: every managed interface has after restore the resolver list it
\* had before capture, automatic mode and 127.0.0.1 included
C6_AsStated ==
    CapturedThenRestored =>
        \A i \in ManagedInterfaces : osDNS[i] = preDNS[i]

\* the printed form of a resolver list contains the text 127.0.0.1
MentionsLoopback(servers) ==
    \E k \in 1..Len(servers) : servers[k] \in {"127.0.0.1", "127.0.0.11"}

\* C6, amended: when every OS command of restore succeeds, capture followed
\* immediately by restore leaves every managed interface with the resolver
\* list it had before capture, except that on macOS a service whose list
\* named 127.0.0.1 before capture is left in automatic mode
C6_CaptureRestoreIdentity ==
    (CapturedThenRestored /\ ~mgrOps[2].failed) =>
        \A i \in ManagedInterfaces :
            IF platform = "darwin" /\ MentionsLoopback(preDNS[i])
            THEN osDNS[i] = <<>>
            ELSE osDNS[i] = preDNS[i]

\* capture and restore have run without a failed command on a host with a
\* two-resolver interface and an interface pointing at 127.0.0.1, both managed
C6_Witness ==
    /\ CapturedThenRestored
    /\ ~mgrOps[1].failed
    /\ ~mgrOps[2].failed
    /\ \E i, j \in ManagedInterfaces :
          /\ preDNS[i] = <<"8.8.8.8", "8.8.4.4">>
          /\ preDNS[j] = <<"127.0.0.1">>

(***************************************************************************)
(* C7, C8.  The fallback over the ports.                                   *)
(***************************************************************************)
FallbackOrder == <<":53", ":8053", ":5353", ":9053", ":10053">>

\* both probes of the attempt succeeded
BothBound(a) == a.udp /\ a.tcp

\* C7: StartService tries :53, :8053, :5353, :9053, :10053 in exactly that
\* order and returns the first port on which both the UDP and the TCP bind
\* succeed: every port tried before the chosen one failed a bind, and no
\* port is tried after a success
C7_PortFallbackOrder ==
    /\ Len(attempts) <= Len(FallbackOrder)
    /\ \A k \in 1..Len(attempts) : attempts[k].port = FallbackOrder[k]
    /\ \A k \in 1..(Len(attempts) - 1) : ~BothBound(attempts[k])
    /\ sp.result = "ok" =>
          /\ Len(attempts) >= 1
          /\ BothBound(attempts[Len(attempts)])
          /\ sp.port = attempts[Len(attempts)].port

\* StartService returned the third port after the first two failed
C7_Witness ==
    /\ sp.pc = "returned"
    /\ sp.result = "ok"
    /\ sp.port = ":5353"
    /\ Len(attempts) = 3
    /\ attempts[1].udp /\ ~attempts[1].tcp
    /\ ~attempts[2].udp

\* every one of the five ports was tried and could not be bound
AllPortsOccupied ==
    /\ Len(attempts) = Len(FallbackOrder)
    /\ \A k \in 1..Len(attempts) : ~BothBound(attempts[k])

\* C8: if all five fallback ports are occupied, StartService returns an
\* error, and after it returns no UDP or TCP socket opened by the resolver,
\* probe or listener, remains bound on any of the five ports
C8_AllPortsOccupied ==
    (AllPortsOccupied /\ sp.pc = "returned") =>
        /\ sp.result = "error"
        /\ sp.port = ""
        /\ \A sock \in held : \A k \in 1..Len(FallbackOrder) : sock.address # FallbackOrder[k]
        /\ sp.udpServer \notin {"starting", "serving"}
        /\ sp.tcpServer \notin {"starting", "serving"}

\* StartService returned after five failures, some of them after a UDP probe
\* that had succeeded
C8_Witness ==
    /\ AllPortsOccupied
    /\ sp.pc = "returned"
    /\ \E k \in 1..Len(attempts) : attempts[k].udp
    /\ \E k \in 1..Len(attempts) : ~attempts[k].udp

(***************************************************************************)
(* C11.  A request the handler answers itself that carries a question of   *)
(* a qtype other than A, AAAA and CNAME gets a response with RCODE         *)
(* NXDOMAIN and an empty answer section, also when it carries more than    *)
(* one matching question.                                                  *)
(***************************************************************************)
C11_OtherQtypeIsNxdomain ==
    ( /\ exchange # <<>>
      /\ X.sent = <<>>
      /\ \E k \in 1..Len(X.req.Question) :
            X.req.Question[k].Qtype \notin {"A", "AAAA", "CNAME"} )
    => /\ Len(X.written) = 1
       /\ X.written[1].Rcode = "NXDOMAIN"
       /\ X.written[1].Answer = <<>>

(***************************************************************************)
(* C12 - C15.  The reverse proxy handler.                                  *)
(***************************************************************************)
H == http[1]

\* the header value the client sent, empty when it sent none
Inbound(name) == IF name \in DOMAIN H.req.Header THEN H.req.Header[name] ELSE <<>>

\* the full URL of the inbound request
InboundURL ==
    <<"https", "://">> \o H.req.Host \o H.req.Path
        \o (IF H.req.QueryString = <<>> THEN <<>> ELSE <<"?">> \o H.req.QueryString)

\* the X-Epic-URL value the statement prescribes
PrescribedEpicURL ==
    IF Inbound("X-Epic-URL") # <<>> THEN Inbound("X-Epic-URL")
    ELSE IF H.req.Host # <<"localhost">> THEN InboundURL
    ELSE Inbound("X-Epic-URL")

\* the outbound target URL: the upstream base, the inbound path, "?", the query
PrescribedTarget == Proxy.UpstreamURL \o H.req.Path \o <<"?">> \o H.req.QueryString

\* C12 as stated: for every inbound request the outbound X-Epic-URL header is
\* the client's non-empty X-Epic-URL, else the full inbound URL when the Host
\* is not localhost, else the inbound X-Epic-URL; and the target URL is built
\* from the inbound path and query whatever the choice
C12_AsStated ==
    http # <<>> =>
        /\ "X-Epic-URL" \in DOMAIN H.outbound.Header
        /\ H.outbound.Header["X-Epic-URL"] = PrescribedEpicURL
        /\ H.outbound.URL = PrescribedTarget

\* C12, amended: the same, for every inbound request when the configured
\* header overlay has no entry named X-Epic-URL
C12_EpicURLChoice ==
    (http # <<>> /\ "X-Epic-URL" \notin DOMAIN Proxy.Headers) =>
        /\ "X-Epic-URL" \in DOMAIN H.outbound.Header
        /\ H.outbound.Header["X-Epic-URL"] = PrescribedEpicURL
        /\ H.outbound.URL = PrescribedTarget

\* a request for a host other than localhost that carries its own X-Epic-URL
\* went out with that value, under an overlay without X-Epic-URL
C12_Witness ==
    /\ http # <<>>
    /\ "X-Epic-URL" \notin DOMAIN Proxy.Headers
    /\ H.req.Host = <<"real.example">>
    /\ Inbound("X-Epic-URL") = <<"https://", "o.example", "/w">>
    /\ H.outbound.Header["X-Epic-URL"] = <<"https://", "o.example", "/w">>
    /\ H.outbound.URL = PrescribedTarget

\* C13: every header of the configured overlay is on the outbound request with
\* exactly its configured value; the overlay is applied after the X-Epic-URL
\* rewrite, so an overlay entry named X-Epic-URL overrides the per-request value
C13_OverlayApplied ==
    http # <<>> =>
        \A n \in DOMAIN Proxy.Headers :
            /\ n \in DOMAIN H.outbound.Header
            /\ H.outbound.Header[n] = Proxy.Headers[n]

\* a request carrying its own X-Epic-URL and X-Telemachus-Identifier went out
\* with the values of an overlay that configures both
C13_Witness ==
    /\ http # <<>>
    /\ DOMAIN Proxy.Headers = {"X-Epic-URL", "X-Telemachus-Identifier"}
    /\ Inbound("X-Epic-URL") = <<"https://", "o.example", "/w">>
    /\ Inbound("X-Telemachus-Identifier") = <<"client">>
    /\ H.outbound.Header["X-Epic-URL"] = <<"https://", "fixed.example", "/">>
    /\ H.outbound.Header["X-Telemachus-Identifier"] = <<"id">>

\* C14: the outbound target URL of every proxied request is the configured
\* upstream base, the inbound path, a literal "?" and the inbound raw query
\* string; the "?" is there even when the query string is empty
C14_TargetURL ==
    http # <<>> =>
        H.outbound.URL = Proxy.UpstreamURL \o H.req.Path \o <<"?">> \o H.req.QueryString

\* a request without a query string went out to a URL ending in "?"
C14_Witness ==
    /\ http # <<>>
    /\ H.req.QueryString = <<>>
    /\ H.req.Path = <<"/v">>
    /\ Proxy.UpstreamURL = <<"https://up.example", "/api">>
    /\ H.outbound.URL = <<"https://up.example", "/api", "/v", "?">>

\* C15: whenever the upstream call of the proxy handler fails, the client
\* receives a response of HTTP status 500 whose JSON body has code 500,
\* message "Internal Server Error" and error set to the cause
C15_UpstreamFailureIs500 ==
    (http # <<>> /\ H.err # <<>>) =>
        /\ H.response.Status = 500
        /\ H.response.Body = <<[code |-> 500, message |-> "Internal Server Error",
                                error |-> H.err[1]]>>

(***************************************************************************)
(* C16.  What restore writes.                                              *)
(***************************************************************************)
LastOp == mgrOps[Len(mgrOps)]

\* C16: restore writes back, for every managed interface of the snapshot,
\* exactly the captured resolver sequence in its original order, and sets an
\* interface captured with an empty sequence back to automatic mode: after a
\* restore whose OS commands succeeded every managed interface reads its
\* snapshot entry
C16_RestoreWritesSnapshot ==
    (mgrOps # <<>> /\ LastOp.op = "restore" /\ ~LastOp.err /\ ~LastOp.failed) =>
        \A i \in ManagedInterfaces :
            /\ osDNS[i] = originalDNS[i]
            /\ originalDNS[i] = <<>> => osDNS[i] = <<>>

\* on Windows an interface captured as 8.8.8.8, 8.8.4.4 reads the same after
\* capture, apply and restore, each without a failed command
C16_Witness ==
    /\ platform = "windows"
    /\ Len(mgrOps) = 3
    /\ mgrOps[1].op = "capture" /\ ~mgrOps[1].err /\ ~mgrOps[1].failed
    /\ mgrOps[2].op = "apply" /\ ~mgrOps[2].err /\ ~mgrOps[2].failed
    /\ mgrOps[3].op = "restore" /\ ~mgrOps[3].err /\ ~mgrOps[3].failed
    /\ \E i \in ManagedInterfaces :
          /\ originalDNS[i] = <<"8.8.8.8", "8.8.4.4">>
          /\ osDNS[i] = <<"8.8.8.8", "8.8.4.4">>

(***************************************************************************)
(* C17.  Restoration on exit.                                              *)
(***************************************************************************)
\* the k-th Manager operation is an apply that changed the system DNS
ApplyMutated(k) == mgrOps[k].op = "apply" /\ mgrOps[k].wrote # {}

\* C17: in every execution in which apply has mutated the system DNS,
\* restore is invoked before the process exits, on every exit path: the
\* listener returning, SIGINT or SIGTERM, and a fatal error raised after the
\* mutation
C17_RestoreBeforeExit ==
    life.pc = "exited" =>
        \A k \in 1..Len(mgrOps) :
            ApplyMutated(k) => \E j \in (k + 1)..Len(mgrOps) : mgrOps[j].op = "restore"

(***************************************************************************)
(* C18.  The maps hold enabled rules only.                                 *)
(***************************************************************************)
\* C18: in every reachable state, after any sequence of rule add, toggle
\* and remove, start and stop operations, every key of the exact map and of
\* the wildcard map comes from a rule that is currently enabled
C18_MapsHoldEnabledRulesOnly ==
    /\ \A key \in DOMAIN redirects :
          \E i \in EnabledIndexes :
              ~IsWildcard(Redirects[i]) /\ Canonical(Redirects[i].Domain) = key
    /\ \A key \in DOMAIN redirectsWildcard :
          \E i \in EnabledIndexes :
              IsWildcard(Redirects[i]) /\ SuffixOf(Redirects[i]) = key

(***************************************************************************)
(* C19.  The listener bundle.                                              *)
(***************************************************************************)
\* the sockets this process listens on
Listeners == {sock \in held : sock.use = "listener"}

\* both goroutines of Server.Start have made their bind
ListenersSettled == sp.udpServer # "starting" /\ sp.tcpServer # "starting"

\* C19: the listener bundle is all-or-nothing: when Server.Start returned
\* nil, the UDP and the TCP listener are both bound on the address once the
\* binds have been made, and when StartService returned an error no listener
\* is bound; a bind failure of a real listener is never a success with one
\* or zero listeners
C19_ListenerBundle ==
    /\ (sp.result = "ok" /\ ListenersSettled) =>
          Listeners = {Socket(sp.port, "udp", "listener"), Socket(sp.port, "tcp", "listener")}
    /\ sp.result = "error" => Listeners = {}

(***************************************************************************)
(* C20.  Capture happens at most once.                                     *)
(***************************************************************************)
\* the step is a capture invocation
CaptureStep ==
    /\ Len(mgrOps') = Len(mgrOps) + 1
    /\ mgrOps'[Len(mgrOps')].op = "capture"

\* an earlier capture has populated the snapshot
SnapshotPopulated == DOMAIN originalDNS # {}

\* every apply that changed the system DNS comes after a capture
PopulatedBeforeMutation ==
    \A k \in 1..Len(mgrOps) :
        ApplyMutated(k) => \E j \in 1..(k - 1) : mgrOps[j].op = "capture" /\ ~mgrOps[j].err

\* C20: capture happens at most once per process: once the first capture has
\* populated the original-DNS snapshot, a later capture invocation leaves the
\* snapshot exactly as it was, and the snapshot is populated before any
\* mutation of the system DNS
C20_CaptureAtMostOnce ==
    /\ [][(CaptureStep /\ SnapshotPopulated) => originalDNS' = originalDNS]_vars
    /\ []PopulatedBeforeMutation

(***************************************************************************)
(* C21.  Restore is idempotent.                                            *)
(***************************************************************************)
\* the step is a restore invocation
RestoreStep ==
    /\ Len(mgrOps') = Len(mgrOps) + 1
    /\ mgrOps'[Len(mgrOps')].op = "restore"

\* the operation returned no error and none of its commands failed
Succeeded(op) == ~op.err /\ ~op.failed

\* C21: restore is idempotent: a RestoreOriginalDNS that directly follows a
\* RestoreOriginalDNS, the commands of both succeeding, leaves the resolvers
\* of every interface and the snapshot itself as the first call left them
C21_RestoreIdempotent ==
    [][(/\ mgrOps # <<>>
        /\ LastOp.op = "restore"
        /\ Succeeded(LastOp)
        /\ RestoreStep
        /\ Succeeded(mgrOps'[Len(mgrOps')]))
          => (osDNS' = osDNS /\ originalDNS' = originalDNS)]_vars

\* the signal handler restored and then the deferred StopService restored
\* again, after an apply that had pointed an interface at the local resolver
C21_Witness ==
    /\ Len(mgrOps) = 4
    /\ ApplyMutated(2)
    /\ mgrOps[3].op = "restore" /\ Succeeded(mgrOps[3])
    /\ mgrOps[4].op = "restore" /\ Succeeded(mgrOps[4])
    /\ \E i \in ManagedInterfaces :
          originalDNS[i] = <<"8.8.8.8", "8.8.4.4">> /\ osDNS[i] = originalDNS[i]

(***************************************************************************)
(* C22.  What apply returns.                                               *)
(***************************************************************************)
\* C22: SetDNSToLocal, called with a populated snapshot, returns success if
\* and only if at least one interface was successfully mutated: an error is
\* returned exactly when zero interfaces were mutated, on the Windows and on
\* the macOS branch
C22_ApplySucceedsIffMutated ==
    (mgrOps # <<>> /\ LastOp.op = "apply" /\ SnapshotPopulated) =>
        (~LastOp.err <=> LastOp.wrote # {})

(***************************************************************************)
(* C23.  When the lifecycle applies.                                       *)
(***************************************************************************)
ApplyCalled == \E k \in 1..Len(mgrOps) : mgrOps[k].op = "apply"

\* C23: once StartService has returned a port, apply has been called if and
\* only if the port is not :53, auto-manage is enabled and capture produced
\* a non-empty snapshot; when the resolver binds :53 the system DNS is not
\* mutated by apply
C23_ApplyOnlyOffPort53 ==
    (sp.pc = "returned" /\ sp.result = "ok") =>
        /\ ApplyCalled <=> (sp.port # ":53" /\ AutoManageSystem /\ SnapshotPopulated)
        /\ sp.port = ":53" => \A k \in 1..Len(mgrOps) : ~ApplyMutated(k)

(***************************************************************************)
(* C24.  The order of the shutdown steps.                                  *)
(***************************************************************************)
\* Server.Stop has shut a resolver listener down
ResolverStopped == sp.udpServer = "stopped" \/ sp.tcpServer = "stopped"

\* the reverse proxy is accepting connections
ProxyListening == life.pc = "listening"

\* C24: on every shutdown, graceful or by signal, the reverse proxy listener
\* is stopped first, then restore is called, and only then are the resolver
\* listeners stopped: restore is never called while the proxy still listens
\* and never after the resolver has been stopped
C24_ShutdownOrder ==
    [][RestoreStep => (~ProxyListening /\ ~ResolverStopped)]_vars

(***************************************************************************)
(* C25.  Restore only after a mutation.                                    *)
(***************************************************************************)
\* C25: restore writes to the resolver configuration of the OS at shutdown
\* only if the system DNS was mutated by a successful apply in this run:
\* when apply was skipped or failed, neither the graceful stop nor the
\* signal handler writes an interface
C25_RestoreOnlyAfterMutation ==
    \A k \in 1..Len(mgrOps) :
        (mgrOps[k].op = "restore" /\ mgrOps[k].wrote # {}) =>
            \E j \in 1..(k - 1) : ApplyMutated(j) /\ ~mgrOps[j].err

(***************************************************************************)
(* C26.  The two callers of the Manager are serialized.                    *)
(***************************************************************************)
\* the caller is inside an operation of the Manager
Inside(caller) == life.inFlight[caller].op # "none"

\* an interface of the snapshot is left at the local resolver although it
\* was not captured that way
LeftAtLocal ==
    \E i \in ManagedInterfaces : osDNS[i] = <<"127.0.0.1">> /\ originalDNS[i] # osDNS[i]

\* C26: the calls into the Manager from the lifecycle and from the signal
\* handler are serialized: the restore of the signal handler never runs
\* while an apply or a restore of the lifecycle is in progress, and a
\* process ended by the signal handler leaves no interface at 127.0.0.1
C26_ManagerCallsSerialized ==
    /\ ~(Inside("lifecycle") /\ Inside("signal"))
    /\ life.exit = "signal" /\ life.signalHandlers > 0 => ~LeftAtLocal

(***************************************************************************)
(* C27.  Signal handlers are installed once.                               *)
(***************************************************************************)
\* C27: signal handlers are installed at most once per process: a second
\* SetupSignalHandlers request, from a second StartService, is ignored, so
\* at most one goroutine reacts to a signal and a signal triggers restore
\* at most once
C27_HandlersInstalledOnce ==
    /\ life.signalHandlers <= 1
    /\ Cardinality(life.restoredBy) <= 1

(***************************************************************************)
(* C28.  Unsupported platforms.                                            *)
(***************************************************************************)
Unsupported == platform \notin {"windows", "darwin"}

UnsupportedLifecycleRuns ==
    /\ Unsupported
    /\ life.pc = "listening"
    /\ sp.result = "ok"
    /\ sp.udpServer = "serving" /\ sp.tcpServer = "serving"
    /\ ~ApplyCalled

(***************************************************************************)
(* C29.  Multi-question requests short-circuit.                            *)
(***************************************************************************)
\* the k-th question of the request matches no enabled rule
MatchesNoRule(k) ==
    \A i \in EnabledIndexes : ~Matches(Redirects[i], X.req.Question[k].Name)

\* the questions of the request that match no enabled rule
Misses == {k \in 1..Len(X.req.Question) : MatchesNoRule(k)}

FirstMiss == CHOOSE k \in Misses : \A j \in Misses : k <= j

\* C29: as soon as the handler reaches a question that matches no rule it
\* forwards the whole original request to the upstream and the client
\* receives only the upstream's reply: no lookup is made for a later
\* question, and no answer synthesized for an earlier question is in what
\* the client receives
C29_ShortCircuit ==
    (exchange # <<>> /\ Misses # {}) =>
        /\ X.sent = <<X.req>>
        /\ Len(X.lookups) = FirstMiss
        /\ Len(X.written) = 1
        /\ X.reply # <<>> => X.written = X.reply
        /\ X.reply = <<>> => X.written[1].Answer = <<>>

(***************************************************************************)
(* C30.  Rule matching is deterministic.                                   *)
(***************************************************************************)
\* C30: for a fixed enabled rule set and a fixed query name the lookup
\* always returns the same hit and target, also when the name falls under
\* two wildcard suffixes with different targets: two questions of one
\* request that carry the same name get the same lookup result
C30_MatchingDeterministic ==
    exchange # <<>> =>
        \A j, k \in 1..Len(X.lookups) :
            Canonical(X.req.Question[j].Name) = Canonical(X.req.Question[k].Name)
                => X.lookups[j] = X.lookups[k]

(***************************************************************************)
(* C31.  Exact rules take precedence over wildcard rules.                  *)
(***************************************************************************)
\* the normalised name of the k-th question is a key of the exact map
InExactMap(k) == Canonical(X.req.Question[k].Name) \in DOMAIN redirects

\* the wildcard patterns the normalised name of the k-th question ends with
WildcardsOver(k) ==
    {p \in DOMAIN redirectsWildcard : HasSuffix(Canonical(X.req.Question[k].Name), p)}

\* C31: exact rules take precedence over wildcard rules: when a query name
\* is a key of the exact map, the lookup returns the target the exact map
\* holds for it, also when the name falls under a wildcard suffix; the
\* wildcard map decides only on an exact-map miss
C31_ExactBeforeWildcard ==
    exchange # <<>> =>
        \A k \in 1..Len(X.lookups) :
            /\ InExactMap(k) =>
                  X.lookups[k] = [target |-> redirects[Canonical(X.req.Question[k].Name)],
                                  hit |-> TRUE]
            /\ (~InExactMap(k) /\ X.lookups[k].hit) =>
                  \E p \in WildcardsOver(k) : X.lookups[k].target = redirectsWildcard[p]

\* a name that is a key of the exact map and falls under a wildcard suffix
\* with another target was looked up and got the target of the exact map
C31_Witness ==
    /\ exchange # <<>>
    /\ Len(X.lookups) >= 1
    /\ InExactMap(1)
    /\ \E p \in WildcardsOver(1) :
          redirectsWildcard[p] # redirects[Canonical(X.req.Question[1].Name)]
    /\ X.lookups[1].target = redirects[Canonical(X.req.Question[1].Name)]

(***************************************************************************)
(* C32.  Fallback snapshot entries are never written.                      *)
(***************************************************************************)
\* the step is an apply invocation
ApplyStep ==
    /\ Len(mgrOps') = Len(mgrOps) + 1
    /\ mgrOps'[Len(mgrOps')].op = "apply"

\* the snapshot holds nothing but an entry under a reserved key
FallbackSnapshotOnly == DOMAIN originalDNS # {} /\ DOMAIN originalDNS \subseteq FallbackKeys

\* C32: the fallback snapshot entries, under the reserved keys "system" and
\* "resolv.conf", are never written to the OS: no apply and no restore runs
\* a command for a reserved key, and an apply or a restore on a snapshot
\* that holds only a fallback entry leaves the resolvers of every interface
\* as they are
C32_FallbackNeverWritten ==
    /\ [](\A k \in 1..Len(mgrOps) :
             mgrOps[k].op \in {"apply", "restore"} => mgrOps[k].wrote \cap FallbackKeys = {})
    /\ [][((ApplyStep \/ RestoreStep) /\ FallbackSnapshotOnly) => osDNS' = osDNS]_vars

\* on macOS a capture that found no service recorded the fallback entry,
\* and apply and restore have both run on that snapshot
C32_Witness ==
    /\ platform = "darwin"
    /\ FallbackSnapshotOnly
    /\ Len(mgrOps) = 3
    /\ mgrOps[1].op = "capture"
    /\ mgrOps[2].op = "apply"
    /\ mgrOps[3].op = "restore"
    /\ \E i \in Ifaces : osDNS[i] = <<"8.8.8.8", "8.8.4.4">>

(***************************************************************************)
(* C33.  What capture records on Windows.                                  *)
(***************************************************************************)
\* the first operation was a capture that returned no error
CapturedFirst == mgrOps # <<>> /\ mgrOps[1].op = "capture" /\ ~mgrOps[1].err

\* C33: on Windows capture records every enumerated interface in the
\* snapshot, an interface with no static resolvers with an empty sequence,
\* so that an apply whose commands succeed points every interface at
\* 127.0.0.1 and a restore whose commands succeed sets an interface that had
\* no static resolvers back to automatic mode
C33_WindowsCapturesEveryInterface ==
    (platform = "windows" /\ CapturedFirst) =>
        /\ DOMAIN originalDNS = Ifaces
        /\ \A i \in Ifaces : preDNS[i] = <<>> => originalDNS[i] = <<>>
        /\ (LastOp.op = "apply" /\ Succeeded(LastOp)) =>
              \A i \in Ifaces : osDNS[i] = <<"127.0.0.1">>
        /\ (LastOp.op = "restore" /\ Succeeded(LastOp)) =>
              \A i \in Ifaces : preDNS[i] = <<>> => osDNS[i] = <<>>

(***************************************************************************)
(* C34.  A degraded start never aborts.                                    *)
(***************************************************************************)
\* the capture of this step returned an error or recorded no interface
CaptureFailedStep ==
    /\ CaptureStep
    /\ mgrOps'[Len(mgrOps')].err \/ DOMAIN originalDNS' = {}

\* the self-test of this step returned an error
SelfTestFailedStep == life.pc = "TestDNSServer" /\ life'.selfTest = "failed"

\* C34: a degraded start never aborts: a capture that fails or yields no
\* interface is only logged and StartService goes on to bind the resolver,
\* and a self-test that fails is only logged and the start sequence goes on
\* to the HTTPS proxy listener; neither ends the process
C34_DegradedStartContinues ==
    [][/\ CaptureFailedStep => (life'.pc # "exited" /\ sp'.pc = "Start")
       /\ SelfTestFailedStep => (life'.pc = "deferred" /\ life'.exit = "none")]_vars

\* the proxy listens and a resolver listener serves after a start in which
\* capture failed or recorded nothing and the self-test failed
C34_Witness ==
    /\ life.pc = "listening"
    /\ mgrOps # <<>> /\ mgrOps[1].op = "capture"
    /\ mgrOps[1].err \/ DOMAIN originalDNS = {}
    /\ life.selfTest = "failed"
    /\ sp.result = "ok"
    /\ sp.tcpServer = "serving"
    /\ ~ApplyCalled

(***************************************************************************)
(* C35.  The signal handler restores and then exits.                       *)
(***************************************************************************)
\* RestoreOriginalDNS has returned to the goroutine of the signal handler
HandlerRestored == life.signal = "restored"

\* the step in which the goroutine of the signal handler makes its restore
HandlerRestoreStep == ~HandlerRestored /\ HandlerRestored'

\* the step in which the handler ends the process
HandlerExitStep ==
    /\ life.signalHandlers > 0
    /\ life.pc # "exited"
    /\ life'.pc = "exited"
    /\ life'.exit = "signal"

\* C35: once the signal handler is installed, a SIGINT or SIGTERM leads to
\* one restore attempt of the handler followed by the exit of the process:
\* the handler's step on a signal is a RestoreOriginalDNS call and it makes
\* no second one, it never exits before that call has returned, and once
\* the call has returned the process exits, also when the restore returned
\* an error or a command for some interface failed
C35_SignalRestoreThenExit ==
    /\ [][HandlerRestoreStep => RestoreStep]_vars
    /\ [][HandlerRestored => HandlerRestored']_vars
    /\ [][HandlerExitStep => (HandlerRestored /\ ~RestoreStep)]_vars
    /\ HandlerRestored ~> (life.pc = "exited")

\* the handler has ended the process after a restore of which a command
\* failed, the system DNS having been pointed at the local resolver
C35_Witness ==
    /\ life.pc = "exited"
    /\ life.exit = "signal"
    /\ HandlerRestored
    /\ Len(mgrOps) = 3
    /\ ApplyMutated(2)
    /\ mgrOps[3].op = "restore" /\ mgrOps[3].failed

(***************************************************************************)
(* C36.  One response per request.                                         *)
(***************************************************************************)
\* the four paths through the handler
NoQuestionPath == X.req.Question = <<>>

AllHitPath == X.req.Question # <<>> /\ X.sent = <<>>

ForwardedPath == X.sent # <<>> /\ ~X.failed

ForwardFailedPath == X.sent # <<>> /\ X.failed

\* C36: handleDNSRequest writes exactly one response message per inbound
\* request on every path: a request with no question, a request whose
\* questions all hit, a miss with a successful upstream exchange and a miss
\* with a failed upstream exchange; never zero and never two
C36_OneResponsePerRequest ==
    exchange # <<>> =>
        /\ NoQuestionPath \/ AllHitPath \/ ForwardedPath \/ ForwardFailedPath
        /\ Len(X.written) = 1

\* a request of two questions, the first a hit and the second a miss whose
\* upstream exchange failed, got one response
C36_Witness ==
    /\ exchange # <<>>
    /\ Len(X.req.Question) = 2
    /\ Len(X.lookups) = 2
    /\ X.lookups[1].hit
    /\ ~X.lookups[2].hit
    /\ ForwardFailedPath
    /\ Len(X.written) = 1

(***************************************************************************)
(* C37.  The snapshot and the local resolver.                              *)
(***************************************************************************)
\* the resolver list names the local resolver
NamesLocal(servers) == \E k \in 1..Len(servers) : servers[k] = "127.0.0.1"

\* no snapshot entry of a managed interface names the local resolver, and a
\* restore whose commands succeeded has left no managed interface at it
SnapshotFreeOfLocal ==
    /\ \A i \in ManagedInterfaces : ~NamesLocal(originalDNS[i])
    /\ (mgrOps # <<>> /\ LastOp.op = "restore" /\ Succeeded(LastOp)) =>
          \A i \in ManagedInterfaces : ~NamesLocal(osDNS[i])

\* C37 as stated: the captured snapshot never contains 127.0.0.1 as a
\* resolver of a managed interface, on any platform, so that restore can
\* never point an interface back at the local resolver a previous run left
C37_AsStated == SnapshotFreeOfLocal

\* C37, amended: on macOS the captured snapshot never contains 127.0.0.1 as
\* a resolver of a managed service, a service found pointing at 127.0.0.1
\* being reset to automatic mode and read again before it is recorded, so
\* that restore never points a service back at the local resolver; on
\* Windows the resolvers of an interface are recorded as they are found
C37_SnapshotFreeOfLocalOnMacOS ==
    /\ platform = "darwin" => SnapshotFreeOfLocal
    /\ (platform = "windows" /\ Len(mgrOps) = 1 /\ CapturedFirst) =>
          \A i \in ManagedInterfaces : originalDNS[i] = preDNS[i]

\* on macOS a service that pointed at 127.0.0.1 was captured as automatic,
\* and capture, apply and restore have run without a failed command
C37_Witness ==
    /\ platform = "darwin"
    /\ Len(mgrOps) = 3
    /\ mgrOps[1].op = "capture" /\ Succeeded(mgrOps[1])
    /\ mgrOps[2].op = "apply" /\ Succeeded(mgrOps[2])
    /\ mgrOps[3].op = "restore" /\ Succeeded(mgrOps[3])
    /\ \E i \in ManagedInterfaces :
          /\ preDNS[i] = <<"127.0.0.1">>
          /\ originalDNS[i] = <<>>
          /\ osDNS[i] = <<>>

(***************************************************************************)
(* C38.  The system DNS points at the local resolver only while it serves. *)
(***************************************************************************)
\* an apply has set an interface to 127.0.0.1 and no restore has been
\* called since
AppliedNotRestored ==
    \E k \in 1..Len(mgrOps) :
        /\ ApplyMutated(k)
        /\ \A j \in (k + 1)..Len(mgrOps) : mgrOps[j].op # "restore"

\* apply is called only once Server.Start has returned success on a port
ApplyOnlyAfterStart == ApplyCalled => (sp.result = "ok" /\ sp.port # "")

\* C38: the system DNS is pointed at 127.0.0.1 only while this process has
\* a resolver listening: apply is never called before Server.Start has
\* returned success on some port and never when all five ports fail, and
\* in every state where an interface was set to 127.0.0.1 by apply and not
\* yet restored the listeners of the resolver have not been stopped
C38_LocalOnlyWhileListening ==
    /\ ApplyOnlyAfterStart
    /\ AllPortsOccupied => ~ApplyCalled
    /\ AppliedNotRestored => ~ResolverStopped

(***************************************************************************)
(* C39.  What the status reports.                                          *)
(***************************************************************************)
\* the operator is at the menu: no StartService is in progress and every
\* resolver this process started has been stopped by StopService
AtMenu == life.pc = "main"

\* C39: GetServiceStatus reports running = true only while the listeners
\* of the resolver are started: it reports running = false before any
\* start, after StartService failed on all ports and after StopService has
\* completed, that is, whenever the operator is at the menu
C39_StatusRunning ==
    /\ life.starts = 0 => ~GetServiceStatus.running
    /\ sp.result = "error" => ~GetServiceStatus.running
    /\ AtMenu => ~GetServiceStatus.running

(***************************************************************************)
(* C40.  What a reload leaves alone.                                       *)
(***************************************************************************)
\* the step is a step of a running updateRedirects call
ReloadStep == upd' # upd

\* a reload step leaves the listeners, the sockets, the snapshot, the host
\* and the configuration as they are
ReloadFrame ==
    [][ReloadStep => /\ serving' = serving
                     /\ held' = held
                     /\ sp' = sp
                     /\ originalDNS' = originalDNS
                     /\ osDNS' = osDNS
                     /\ Redirects' = Redirects]_vars

\* C40: ReloadRedirects changes only the exact and the wildcard map: the
\* bound listeners and the original-DNS snapshot are left unchanged, the
\* listeners keep serving throughout and no query in flight is aborted: the
\* process is never brought down by a reload
C40_ReloadChangesMapsOnly ==
    /\ ReloadFrame
    /\ [](serving /\ ~fatal)

====
